---- MODULE Spec2Model ----
(***************************************************************************)
(* Model of the anti-hallucination summarization pipeline of five-rocks:   *)
(* ProcessMemory (Layer 3), SemanticConsolidator (Layer 4),                *)
(* SectionGenerator (Layer 5), PipelineValidator and the regeneration loop *)
(* of AntiHallucinationSummarizer (Layer 6), and the final result.         *)
(*                                                                         *)
(* Python dicts keep insertion order; they are modelled as sequences of    *)
(* <<key, value>> pairs (or as functions where the order is never read).   *)
(* Strings the code inspects with strip/lower/regex are drawn from small   *)
(* sets and the inspection is modelled by a table over those sets.         *)
(***************************************************************************)
EXTENDS Integers, Sequences, FiniteSets, TLC

VARIABLES
    memory,         \* self.memory: extractions, by_tema, by_evento, _parametros_index
    phase,          \* position of the modelled process
    cons_temas,     \* consolidate: themes of get_all_temas() not yet visited
    cons_tema,      \* _consolidate_theme: theme whose model call is awaited ("" if none)
    cons_attempt,   \* _consolidate_theme: loop variable attempt
    consolidated,   \* consolidate: list of ConsolidatedTheme built so far
    api_calls,      \* history: themes for which the consolidator called the model
    max_regeneration_attempts,  \* configuration of the summarizer
    extractions,    \* summarize: the list Layer 2 returned
    sections,       \* summarize: the list Layer 5 returned
    to_regenerate,  \* _layer6_validation: list of (section_name, errors)
    regen_idx,      \* _layer6_validation: position of the for loop in to_regenerate
    attempts,       \* _layer6_validation: loop variable attempts
    errors,         \* _layer6_validation: errors handed to the next regenerate_section
    current_section,\* _layer6_validation: current_section
    section_map,    \* _layer6_validation: section_map
    final_sections, \* summarize: the list Layer 6 returned
    result,         \* summarize: the PipelineResult
    regen_calls,    \* history: regenerate_section calls made per section
    inst_memory,    \* two interleaved runs: self.memory of the shared summarizer
    runs,           \* two interleaved runs: each run's position and locals
    chunker_text,   \* LegalChunker.chunk: the text it is called with
    chunker_chunks, \* LegalChunker.chunk: the list it returns
    max_parallel,   \* FactualExtractor: self.max_parallel
    tasks,          \* extract_from_chunks: one extract_with_semaphore task per chunk
    semaphore,      \* extract_from_chunks: free slots of the asyncio.Semaphore
    extracted,      \* extract_from_chunks: the list it returns
    gen_section,    \* _generate_section: section_name
    gen_calls,      \* _generate_section: how the model calls made so far ended
    gen_result,     \* _generate_section: the SectionResult it returns
    has_adapter,    \* DocumentService: self.adapter is set
    enable_cache,   \* DocumentService: self.enable_cache
    service_cache,  \* DocumentService: self._cache, file hash -> DocumentResult
    file_system,    \* what each path is: missing, a directory, or a file
    call_outcome,   \* history: the last call made and what its caller got
    processed_dir   \* the paths main moved to the processed directory

consVars == <<cons_temas, cons_tema, cons_attempt, consolidated, api_calls>>
l6Vars == <<to_regenerate, regen_idx, attempts, errors, current_section, section_map,
            final_sections, regen_calls>>
sharedVars == <<inst_memory, runs>>
\* what one run of summarize never writes
chunkerVars == <<chunker_text, chunker_chunks>>
extractorVars == <<max_parallel, tasks, semaphore, extracted>>
generatorVars == <<gen_section, gen_calls, gen_result>>
documentVars ==
    <<has_adapter, enable_cache, service_cache, file_system, call_outcome, processed_dir>>
fixedVars ==
    <<max_regeneration_attempts, sharedVars, chunkerVars, extractorVars, generatorVars,
      documentVars>>
runVars == <<fixedVars, extractions, sections, l6Vars, result>>
vars == <<memory, phase, consVars, runVars>>

(***************************************************************************)
(* Generic helpers                                                         *)
(***************************************************************************)
Range(s) == {s[i] : i \in 1..Len(s)}

\* Distinct elements of s in order of first occurrence (dict key order).
RECURSIVE Dedup(_)
Dedup(s) ==
    IF s = <<>> THEN <<>>
    ELSE LET front == Dedup(SubSeq(s, 1, Len(s) - 1))
             x == s[Len(s)]
         IN IF x \in Range(front) THEN front ELSE Append(front, x)

\* Python's sorted(): stable sort of <<key, item>> pairs by ascending key.
InsertStable(sorted, p) ==
    LET n == Cardinality({i \in 1..Len(sorted) : sorted[i][1] <= p[1]})
    IN SubSeq(sorted, 1, n) \o <<p>> \o SubSeq(sorted, n + 1, Len(sorted))

\* Mutant: the groups stay in insertion order.
SortByKey_unsorted(pairs) == pairs

RECURSIVE SortByKey(_)
SortByKey(pairs) ==
    IF pairs = <<>> THEN <<>>
    ELSE InsertStable(SortByKey(SubSeq(pairs, 1, Len(pairs) - 1)), pairs[Len(pairs)])

RECURSIVE Concat(_)
Concat(ss) == IF ss = <<>> THEN <<>> ELSE Head(ss) \o Concat(Tail(ss))

\* dict lookup on a sequence of <<key, value>> pairs
HasKey(d, k) == \E i \in 1..Len(d) : d[i][1] = k
Lookup(d, k) == d[CHOOSE i \in 1..Len(d) : d[i][1] = k][2]

(***************************************************************************)
(* custom_types/extraction_types.py                                        *)
(***************************************************************************)
TipoEvento ==
    {"sentenca", "acordao", "laudo", "ctps", "holerite", "peticao_inicial",
     "contestacao", "recurso", "despacho", "calculo", "contrato",
     "documento_pessoal", "ata_audiencia", "procuracao", "outros"}

\* The themes the model draws from (the enum has 34 members).
Tema == {"jornada", "horas_extras", "adicional_noturno", "fgts", "salario",
         "vinculo_empregaticio", "ferias", "outros"}

SevError == "error"
SevWarning == "warning"

(***************************************************************************)
(* custom_types/process_memory.py                                          *)
(***************************************************************************)
\* _normalize_value on the values of the model: strip().lower() for strings.
normalize_value(value) ==
    CASE value = "50%"     -> "50%"
      [] value = " 50% "   -> "50%"
      [] value = "40%"     -> "40%"
      [] value = "Mensal"  -> "mensal"
      [] value = "mensal"  -> "mensal"
      [] OTHER             -> value

get_priority(tipo_evento) ==
    CASE tipo_evento = "sentenca"          -> 1
      [] tipo_evento = "acordao"           -> 2
      [] tipo_evento = "laudo"             -> 3
      [] tipo_evento = "calculo"           -> 4
      [] tipo_evento = "ctps"              -> 5
      [] tipo_evento = "holerite"          -> 6
      [] tipo_evento = "contrato"          -> 7
      [] tipo_evento = "peticao_inicial"   -> 8
      [] tipo_evento = "contestacao"       -> 9
      [] tipo_evento = "recurso"           -> 10
      [] tipo_evento = "ata_audiencia"     -> 11
      [] tipo_evento = "despacho"          -> 12
      [] tipo_evento = "procuracao"        -> 13
      [] tipo_evento = "documento_pessoal" -> 14
      [] OTHER                             -> 99

EmptyMemory ==
    [extractions |-> <<>>, by_tema |-> <<>>, by_evento |-> <<>>,
     parametros_index |-> <<>>]

\* dict of lists (defaultdict(list)): d[k].append(x)
AppendAt(d, k, x) ==
    IF HasKey(d, k)
    THEN [i \in 1..Len(d) |-> IF d[i][1] = k THEN <<k, Append(d[i][2], x)>> ELSE d[i]]
    ELSE Append(d, <<k, <<x>>>>)

GetList(d, k) == IF HasKey(d, k) THEN Lookup(d, k) ELSE <<>>

RECURSIVE IndexByTema(_, _, _)
IndexByTema(bt, temas, e) ==
    IF temas = <<>> THEN bt
    ELSE IndexByTema(AppendAt(bt, Head(temas), e), Tail(temas), e)

\* The (value, localizacao, tipo_evento) tuples one extraction appends to
\* _parametros_index[tema][campo], in the order of the two nested loops.
ParamEntries(e) ==
    LET P == Len(e.parametros)
    IN [n \in 1..(Len(e.temas) * P) |->
          LET i == ((n - 1) \div P) + 1
              j == ((n - 1) % P) + 1
          IN [tema |-> e.temas[i], campo |-> e.parametros[j][1],
              value |-> e.parametros[j][2], loc |-> e.localizacao,
              evento |-> e.tipo_evento]]

add_extraction(m, e) ==
    [extractions |-> Append(m.extractions, e),
     by_tema |-> IndexByTema(m.by_tema, e.temas, e),
     by_evento |-> AppendAt(m.by_evento, e.tipo_evento, e),
     parametros_index |-> m.parametros_index \o ParamEntries(e)]

RECURSIVE add_extractions(_, _)
add_extractions(m, es) ==
    IF es = <<>> THEN m ELSE add_extractions(add_extraction(m, Head(es)), Tail(es))

get_by_tema(m, tema) == GetList(m.by_tema, tema)

get_all_temas(m) ==
    UNION {Range(m.extractions[i].temas) : i \in 1..Len(m.extractions)}

\* Keys of _parametros_index and of _parametros_index[tema], in dict order.
IndexTemas(m) ==
    Dedup([i \in 1..Len(m.parametros_index) |-> m.parametros_index[i].tema])

TemaEntries(m, tema) == SelectSeq(m.parametros_index, LAMBDA x : x.tema = tema)

IndexCampos(m, tema) ==
    LET es == TemaEntries(m, tema) IN Dedup([i \in 1..Len(es) |-> es[i].campo])

IndexValues(m, tema, campo) ==
    SelectSeq(m.parametros_index, LAMBDA x : x.tema = tema /\ x.campo = campo)

\* unique_values: normalized value -> list of tuples, in dict order
UniqueValues(values) ==
    LET norms == Dedup([i \in 1..Len(values) |-> normalize_value(values[i].value)])
    IN [g \in 1..Len(norms) |->
          <<norms[g], SelectSeq(values, LAMBDA x : normalize_value(x.value) = norms[g])>>]

\* The conflicts detect_conflicts appends for one (tema, campo).
FieldConflicts(tema, campo, values) ==
    IF Len(values) < 2 THEN <<>>
    ELSE LET unique_values == UniqueValues(values)
         IN IF Len(unique_values) > 1
            THEN LET keyed == [g \in 1..Len(unique_values) |->
                                 <<get_priority(unique_values[g][2][1].evento),
                                   unique_values[g]>>]
                     sorted_values == SortByKey(keyed)
                     primary == sorted_values[1][2][2][1]
                 IN [k \in 1..(Len(sorted_values) - 1) |->
                       LET secondary == sorted_values[k + 1][2][2][1]
                       IN [tema |-> tema, campo |-> campo,
                           valor_1 |-> primary.value, fonte_1 |-> primary.loc,
                           valor_2 |-> secondary.value, fonte_2 |-> secondary.loc,
                           resolucao |-> <<primary.evento, secondary.evento>>,
                           fonte_escolhida |-> primary.loc]]
            ELSE <<>>

get_all_eventos(m) == {m.extractions[i].tipo_evento : i \in 1..Len(m.extractions)}

get_summary(m) ==
    [total_extractions |-> Len(m.extractions),
     temas_encontrados |-> get_all_temas(m),
     eventos_encontrados |-> get_all_eventos(m),
     extracoes_por_tema |->
        [i \in 1..Len(m.by_tema) |-> <<m.by_tema[i][1], Len(m.by_tema[i][2])>>],
     extracoes_por_evento |->
        [i \in 1..Len(m.by_evento) |-> <<m.by_evento[i][1], Len(m.by_evento[i][2])>>]]

detect_conflicts(m) ==
    LET temas == IndexTemas(m)
    IN Concat([t \in 1..Len(temas) |->
          LET campos == IndexCampos(m, temas[t])
          IN Concat([c \in 1..Len(campos) |->
                FieldConflicts(temas[t], campos[c],
                               IndexValues(m, temas[t], campos[c]))])])

\* expected_fields of detect_gaps: tema -> (campo, descricao, severidade)
expected_fields ==
    << <<"horas_extras", << <<"percentual", "Percentual de horas extras", SevError>>,
                            <<"periodo", "Periodo de apuracao", SevWarning>> >> >>,
       <<"jornada", << <<"horario_entrada", "Horario de entrada", SevWarning>>,
                       <<"horario_saida", "Horario de saida", SevWarning>> >> >>,
       <<"fgts", << <<"percentual", "Percentual do FGTS", SevWarning>>,
                    <<"periodo", "Periodo de deposito", SevWarning>> >> >>,
       <<"adicional_noturno",
         << <<"percentual", "Percentual do adicional noturno", SevError>> >> >>,
       <<"salario", << <<"valor", "Valor do salario", SevError>> >> >>,
       <<"vinculo_empregaticio",
         << <<"data_admissao", "Data de admissao", SevError>>,
            <<"data_demissao", "Data de demissao", SevWarning>> >> >> >>

\* The gaps detect_gaps appends for one row of expected_fields.
TemaGaps(m, tema_str, fields) ==
    IF tema_str \notin Range(IndexTemas(m)) THEN <<>>
    ELSE LET params == Range(IndexCampos(m, tema_str))
             missing == SelectSeq(fields, LAMBDA f : f[1] \notin params)
         IN [i \in 1..Len(missing) |->
               [tema |-> tema_str, campo |-> missing[i][1],
                descricao |-> missing[i][2], severidade |-> missing[i][3]]]

detect_gaps(m) ==
    Concat([r \in 1..Len(expected_fields) |->
              TemaGaps(m, expected_fields[r][1], expected_fields[r][2])])

get_parametros_by_tema(m, tema) ==
    LET campos == IndexCampos(m, tema)
    IN [c \in 1..Len(campos) |->
          LET values == IndexValues(m, tema, campos[c])
              sorted_values == SortByKey([i \in 1..Len(values) |->
                                  <<get_priority(values[i].evento), values[i]>>])
          IN <<campos[c], sorted_values[1][2].value>>]

get_fontes_by_tema(m, tema) ==
    LET exts == get_by_tema(m, tema)
    IN Dedup(SelectSeq([i \in 1..Len(exts) |-> exts[i].localizacao],
                       LAMBDA l : l # ""))

(***************************************************************************)
(* Inputs: the extractions Layer 2 can hand to the memory.                 *)
(***************************************************************************)
Ext(id, ev, temas, params, loc) ==
    [chunk_id |-> id, tipo_evento |-> ev, temas |-> temas,
     parametros |-> params, localizacao |-> loc]

ExtSentenca50 ==
    Ext("chunk_001", "sentenca", <<"horas_extras">>, << <<"percentual", "50%">> >>, "fls. 10")
ExtHolerite40 ==
    Ext("chunk_002", "holerite", <<"horas_extras">>, << <<"percentual", "40%">> >>, "fls. 55")
ExtHolerite50 ==
    Ext("chunk_003", "holerite", <<"horas_extras">>, << <<"percentual", " 50% ">> >>, "fls. 56")
ExtTemaRepetido ==
    Ext("chunk_004", "holerite", <<"horas_extras", "horas_extras">>,
        << <<"periodo", "Mensal">> >>, "fls. 57")
ExtSemParametros ==
    Ext("chunk_005", "holerite", <<"horas_extras", "fgts">>, <<>>, "fls. 58")
ExtAcordao40 ==
    Ext("chunk_006", "acordao", <<"horas_extras", "fgts">>,
        << <<"percentual", "40%">>, <<"periodo", "mensal">> >>, "fls. 80")

ExtractionPool ==
    {ExtSentenca50, ExtHolerite40, ExtHolerite50, ExtTemaRepetido, ExtSemParametros,
     ExtAcordao40}

\* The lists of extractions Layer 2 hands to one run of summarize.
RunBatches ==
    { <<>>, <<ExtSentenca50>>, <<ExtSentenca50, ExtHolerite40>> }

MaxExtractions == 3

(***************************************************************************)
(* core/semantic_consolidator.py                                           *)
(***************************************************************************)
ConsolidatorMaxRetries == 3

StatusConsolidacao == {"confirmed", "divergent", "pending"}

\* The value None of Optional[ConsolidatedTheme]
NoTheme ==
    [tema |-> "", status |-> "None", parametros_consolidados |-> <<>>,
     fontes |-> <<>>, conflitos |-> <<>>, observacoes |-> ""]

\* What the model can answer to a consolidation request: no content, text
\* holding no JSON object, or a JSON object (data).
ModelJson(status, params, fontes, conflitos) ==
    [kind |-> "json", status |-> status, parametros_consolidados |-> params,
     fontes |-> fontes, conflitos |-> conflitos, observacoes |-> "modelo"]

ConsolidationResponses ==
    { [kind |-> "empty", status |-> "", parametros_consolidados |-> <<>>,
       fontes |-> <<>>, conflitos |-> <<>>, observacoes |-> ""],
      [kind |-> "unparseable", status |-> "", parametros_consolidados |-> <<>>,
       fontes |-> <<>>, conflitos |-> <<>>, observacoes |-> ""],
      ModelJson("divergent", << <<"percentual", "50%">> >>, <<>>,
                << [campo |-> "percentual", valor_1 |-> "50%", fonte_1 |-> "fls. 10",
                    valor_2 |-> "40%", fonte_2 |-> "fls. 55",
                    resolucao |-> "sentenca prevalece"] >>),
      ModelJson("confirmed", <<>>, <<"fls. 10">>, <<>>),
      ModelJson("inconclusivo", <<>>, <<>>, <<>>) }

\* _extract_json and the `if not data` test: the parsed object, or nothing.
HasData(resp) == resp.kind = "json"

parse_consolidation_response(resp, tema, exts) ==
    IF ~HasData(resp) THEN NoTheme
    ELSE [tema |-> tema,
          status |-> IF resp.status \in StatusConsolidacao
                     THEN resp.status ELSE "pending",
          parametros_consolidados |-> resp.parametros_consolidados,
          fontes |-> IF resp.fontes = <<>>
                     THEN [i \in 1..Len(exts) |-> exts[i].localizacao]
                     ELSE resp.fontes,
          conflitos |-> [i \in 1..Len(resp.conflitos) |->
                           [tema |-> tema, campo |-> resp.conflitos[i].campo,
                            valor_1 |-> resp.conflitos[i].valor_1,
                            fonte_1 |-> resp.conflitos[i].fonte_1,
                            valor_2 |-> resp.conflitos[i].valor_2,
                            fonte_2 |-> resp.conflitos[i].fonte_2,
                            resolucao |-> <<resp.conflitos[i].resolucao, "", "">>,
                            fonte_escolhida |-> "None"]],
          observacoes |-> resp.observacoes]

\* _call_consolidation_api once the model has answered with resp
call_consolidation_api(resp, tema, exts) ==
    IF resp.kind = "empty" THEN NoTheme
    ELSE parse_consolidation_response(resp, tema, exts)

create_single_source_consolidation(tema, extraction) ==
    [tema |-> tema, status |-> "confirmed",
     parametros_consolidados |-> extraction.parametros,
     fontes |-> <<extraction.localizacao>>, conflitos |-> <<>>,
     observacoes |-> "Fonte unica - sem conflitos possiveis"]

create_fallback_consolidation(tema, m) ==
    LET parametros == get_parametros_by_tema(m, tema)
        conflitos == SelectSeq(detect_conflicts(m), LAMBDA c : c.tema = tema)
    IN [tema |-> tema,
        status |-> IF conflitos # <<>> THEN "divergent"
                   ELSE IF parametros # <<>> THEN "confirmed" ELSE "pending",
        parametros_consolidados |-> parametros,
        fontes |-> get_fontes_by_tema(m, tema),
        conflitos |-> conflitos,
        observacoes |-> "Consolidacao automatica (fallback)"]

\* consolidate: `if theme_result: consolidated.append(theme_result)`
AppendResult(cons, theme_result) ==
    IF theme_result = NoTheme THEN cons ELSE Append(cons, theme_result)

(***************************************************************************)
(* JSON values of section contents.  t is "str", "obj" or "list"; an       *)
(* object is its sequence of <<key, value>> pairs, a list pairs every item *)
(* with its index token.                                                   *)
(***************************************************************************)
JStr(s) == [t |-> "str", s |-> s, kv |-> <<>>]
JObj(kv) == [t |-> "obj", s |-> "", kv |-> kv]
IndexToken == <<"[0]", "[1]", "[2]">>
JList(items) == [t |-> "list", s |-> "",
                 kv |-> [i \in 1..Len(items) |-> <<IndexToken[i], items[i]>>]]

\* Python truthiness of a JSON value
Truthy(v) == IF v.t = "str" THEN v.s # "" ELSE v.kv # <<>>

RECURSIVE AllStrings(_)
\* every string str(content) shows: keys and string values
AllStrings(v) ==
    IF v.t = "str" THEN {v.s}
    ELSE UNION {(IF v.t = "obj" THEN {v.kv[i][1]} ELSE {}) \cup AllStrings(v.kv[i][2])
                : i \in 1..Len(v.kv)}

\* What the regular expressions and substring tests of the validator find in
\* the strings of the model.
IsPercentual(s) == s \in {"50%", "40%"}
IsValorMonetario(s) == s \in {"R$ 500,00", "R$ 2.000,00"}
IsBlank(s) == s \in {"", "  "}
HasVagueTerm(s) == s \in {"talvez seja devido"}
HasReflexoKeyword(s) == s \in {"reflexos em outras verbas"}
HasBaseKeyword(s) == s \in {"horas extras"}
HasAmbiguousDate(s) == s \in {"1/2/20"}

(***************************************************************************)
(* utils/pipeline_validator.py                                             *)
(***************************************************************************)
NoMessage == [texto |-> "", itens |-> <<>>]
Message(texto, itens) ==
    [texto |-> texto, itens |-> SubSeq(itens, 1, IF Len(itens) < 3 THEN Len(itens) ELSE 3)]

LacksFonte(obj) == ~HasKey(obj.kv, "fonte") \/ ~Truthy(Lookup(obj.kv, "fonte"))

IsPlaceholder(v) == v.t = "str" /\ v.s = "nao identificado"

RECURSIVE check_recursive(_, _)
\* _validate_has_sources.check_recursive: the paths appended to missing_sources
check_recursive(obj, path) ==
    IF obj.t = "obj"
    THEN (IF /\ HasKey(obj.kv, "valor")
             /\ Truthy(Lookup(obj.kv, "valor"))
             /\ ~IsPlaceholder(Lookup(obj.kv, "valor"))
             /\ LacksFonte(obj)
          THEN <<IF path = <<>> THEN <<"campo">> ELSE path>>
          ELSE <<>>)
         \o Concat([i \in 1..Len(obj.kv) |->
                      check_recursive(obj.kv[i][2], Append(path, obj.kv[i][1]))])
    ELSE IF obj.t = "list"
    THEN Concat([i \in 1..Len(obj.kv) |->
                   check_recursive(obj.kv[i][2], Append(path, obj.kv[i][1]))])
    ELSE <<>>

validate_has_sources(content) ==
    LET missing_sources == check_recursive(content, <<>>)
    IN IF missing_sources # <<>> THEN Message("Campos sem fonte", missing_sources)
       ELSE NoMessage

\* _validate_verbas_have_params: both branches end in `pass`
validate_verbas_have_params(content) == NoMessage

RECURSIVE find_percentuais(_, _)
find_percentuais(obj, path) ==
    IF obj.t = "obj"
    THEN Concat([i \in 1..Len(obj.kv) |->
            LET key == obj.kv[i][1]
                value == obj.kv[i][2]
            IN IF value.t = "str" /\ IsPercentual(value.s)
               THEN (IF LacksFonte(obj) THEN <<Append(path, key)>> ELSE <<>>)
               ELSE find_percentuais(value, Append(path, key))])
    ELSE IF obj.t = "list"
    THEN Concat([i \in 1..Len(obj.kv) |->
                   find_percentuais(obj.kv[i][2], Append(path, obj.kv[i][1]))])
    ELSE <<>>

validate_percentuais_have_source(content) ==
    LET missing == find_percentuais(content, <<>>)
    IN IF missing # <<>> THEN Message("Percentuais sem fonte", missing) ELSE NoMessage

RECURSIVE find_valores(_, _)
find_valores(obj, path) ==
    IF obj.t = "obj"
    THEN Concat([i \in 1..Len(obj.kv) |->
            LET key == obj.kv[i][1]
                value == obj.kv[i][2]
            IN IF value.t = "str" /\ IsValorMonetario(value.s)
               THEN (IF LacksFonte(obj) THEN <<Append(path, key)>> ELSE <<>>)
               ELSE IF value.t = "obj" /\ HasKey(value.kv, "valor")
               THEN (IF /\ \E x \in AllStrings(Lookup(value.kv, "valor")) :
                              IsValorMonetario(x)
                        /\ LacksFonte(value)
                     THEN <<Append(path, key)>> ELSE <<>>)
               ELSE find_valores(value, Append(path, key))])
    ELSE IF obj.t = "list"
    THEN Concat([i \in 1..Len(obj.kv) |->
                   find_valores(obj.kv[i][2], Append(path, obj.kv[i][1]))])
    ELSE <<>>

validate_valores_have_source(content) ==
    LET missing == find_valores(content, <<>>)
    IN IF missing # <<>> THEN Message("Valores sem fonte", missing) ELSE NoMessage

validate_reflexos_have_base(content) ==
    IF /\ \E x \in AllStrings(content) : HasReflexoKeyword(x)
       /\ ~\E x \in AllStrings(content) : HasBaseKeyword(x)
    THEN Message("Reflexo mencionado sem verba base clara", <<>>)
    ELSE NoMessage

validate_no_vague_language(content) ==
    IF \E x \in AllStrings(content) : HasVagueTerm(x)
    THEN Message("Linguagem vaga detectada", << <<"talvez">> >>)
    ELSE NoMessage

validate_date_formats(content) ==
    IF \E x \in AllStrings(content) : HasAmbiguousDate(x)
    THEN Message("Data em formato ambiguo (use DD/MM/AAAA)", <<>>)
    ELSE NoMessage

RECURSIVE has_content(_)
has_content(obj) ==
    IF obj.t = "str" THEN ~IsBlank(obj.s)
    ELSE IF obj.t = "list" THEN \E i \in 1..Len(obj.kv) : has_content(obj.kv[i][2])
    ELSE \E i \in 1..Len(obj.kv) : obj.kv[i][1] # "fonte" /\ has_content(obj.kv[i][2])

validate_not_empty(content) ==
    IF ~Truthy(content) THEN Message("Secao vazia", <<>>)
    ELSE IF HasKey(content.kv, "erro") THEN Message("Secao com erro", <<>>)
    ELSE IF ~has_content(content) THEN Message("Secao sem conteudo significativo", <<>>)
    ELSE NoMessage

AllSections == {"*"}

\* _build_rules: name, severity, applies_to, in the order of the list
rules ==
    << [name |-> "campo_sem_localizacao", severity |-> SevError,
        applies_to |-> {"cabecalho", "parametros_calculo", "resultado_por_pedido"}],
       [name |-> "verba_sem_parametro", severity |-> SevError,
        applies_to |-> {"parametros_calculo", "resultado_por_pedido"}],
       [name |-> "percentual_sem_fonte", severity |-> SevError,
        applies_to |-> {"parametros_calculo"}],
       [name |-> "valor_sem_fonte", severity |-> SevError,
        applies_to |-> {"parametros_calculo", "resultado_por_pedido", "resumo"}],
       [name |-> "reflexo_sem_base", severity |-> SevWarning,
        applies_to |-> {"resultado_por_pedido", "parametros_calculo"}],
       [name |-> "linguagem_vaga", severity |-> SevWarning, applies_to |-> AllSections],
       [name |-> "data_invalida", severity |-> SevWarning,
        applies_to |-> {"cabecalho", "timeline", "parametros_calculo"}],
       [name |-> "secao_vazia", severity |-> SevError, applies_to |-> AllSections] >>

\* rule.validator(section.conteudo, section.secao)
RunValidator(name, content) ==
    CASE name = "campo_sem_localizacao" -> validate_has_sources(content)
      [] name = "verba_sem_parametro"   -> validate_verbas_have_params(content)
      [] name = "percentual_sem_fonte"  -> validate_percentuais_have_source(content)
      [] name = "valor_sem_fonte"       -> validate_valores_have_source(content)
      [] name = "reflexo_sem_base"      -> validate_reflexos_have_base(content)
      [] name = "linguagem_vaga"        -> validate_no_vague_language(content)
      [] name = "data_invalida"         -> validate_date_formats(content)
      [] OTHER                          -> validate_not_empty(content)

\* A validator for which any finding, of whatever severity, fails the section
validate_section_any_finding(section) ==
    LET applicable == SelectSeq(rules, LAMBDA r :
                         "*" \in r.applies_to \/ section.secao \in r.applies_to)
        found == SelectSeq(applicable, LAMBDA r :
                         RunValidator(r.name, section.conteudo) # NoMessage)
        errs == [i \in 1..Len(found) |->
                   [secao |-> section.secao, regra |-> found[i].name,
                    mensagem |-> RunValidator(found[i].name, section.conteudo),
                    severidade |-> found[i].severity]]
    IN [passed |-> errs = <<>>, errors |-> errs]

validate_section(section) ==
    LET applicable == SelectSeq(rules, LAMBDA r :
                         "*" \in r.applies_to \/ section.secao \in r.applies_to)
        found == SelectSeq(applicable, LAMBDA r :
                         RunValidator(r.name, section.conteudo) # NoMessage)
        errs == [i \in 1..Len(found) |->
                   [secao |-> section.secao, regra |-> found[i].name,
                    mensagem |-> RunValidator(found[i].name, section.conteudo),
                    severidade |-> found[i].severity]]
    IN [passed |-> ~\E i \in 1..Len(errs) : errs[i].severidade = SevError,
        errors |-> errs]

\* validate_all_sections: one (secao, (passed, errors)) per section, in order
validate_all_sections(secs) ==
    [i \in 1..Len(secs) |-> <<secs[i].secao, validate_section(secs[i])>>]

get_sections_to_regenerate(validation_results) ==
    LET failed == SelectSeq(validation_results, LAMBDA r : ~r[2].passed)
    IN [i \in 1..Len(failed) |->
          LET errs == SelectSeq(failed[i][2].errors,
                                LAMBDA e : e.severidade = SevError)
          IN <<failed[i][1], [j \in 1..Len(errs) |-> errs[j].mensagem]>>]

(***************************************************************************)
(* core/section_generator.py                                               *)
(***************************************************************************)
SECTION_ORDER ==
    <<"cabecalho", "timeline", "resultado_por_pedido", "parametros_calculo",
      "documentos_chave", "pendencias", "proximos_passos", "insight", "resumo">>

GeneratorMaxRetries == 3

RECURSIVE extract_recursive(_)
extract_recursive(obj) ==
    (IF obj.t = "obj" /\ HasKey(obj.kv, "fonte") /\ Truthy(Lookup(obj.kv, "fonte"))
     THEN <<Lookup(obj.kv, "fonte").s>> ELSE <<>>)
    \o Concat([i \in 1..Len(obj.kv) |-> extract_recursive(obj.kv[i][2])])

extract_sources_from_content(content) == Dedup(extract_recursive(content))

SectionResult(secao, conteudo, fontes, ok, tentativas) ==
    [secao |-> secao, conteudo |-> conteudo, fontes_utilizadas |-> fontes,
     validacao_ok |-> ok, erros_validacao |-> <<>>, tentativas |-> tentativas]

NoSection == SectionResult("", JObj(<<>>), <<>>, FALSE, 0)

FailedSection(section_name) ==
    SectionResult(section_name, JObj(<< <<"erro", JStr("Falha na geracao")>> >>),
                  <<>>, FALSE, GeneratorMaxRetries)

\* One model call of _call_generation_api ends in: "content" (a parsed JSON
\* object), "none" (no content, or text that holds no JSON), "transient"
\* (RateLimitError, APIConnectionError) or "other" (any other exception).
CallContent(c) == [kind |-> "content", content |-> c]
CallEnds(kind) == [kind |-> kind, content |-> JObj(<<>>)]

RECURSIVE generate_section_from(_, _, _)
\* _generate_section from loop iteration `attempt` on, the model calls ending
\* as calls[attempt + 1], calls[attempt + 2], ...
generate_section_from(section_name, calls, attempt) ==
    IF attempt >= GeneratorMaxRetries \/ attempt >= Len(calls)
    THEN FailedSection(section_name)
    ELSE LET call == calls[attempt + 1]
         IN IF call.kind = "content" /\ Truthy(call.content)
            THEN SectionResult(section_name, call.content,
                               extract_sources_from_content(call.content),
                               TRUE, attempt + 1)
            ELSE IF call.kind \in {"content", "none"}
            THEN generate_section_from(section_name, calls, attempt + 1)
            ELSE IF call.kind = "transient" /\ attempt # GeneratorMaxRetries - 1
            THEN generate_section_from(section_name, calls, attempt + 1)
            ELSE FailedSection(section_name)

generate_section(section_name, calls) == generate_section_from(section_name, calls, 0)

Field(valor, fonte) == JObj(<< <<"valor", JStr(valor)>>, <<"fonte", JStr(fonte)>> >>)

\* Section contents the model can answer with: a sourced field whose fonte is
\* a location of the document, a sourced field whose fonte is no location of
\* any extraction, a monetary value without fonte, hedged wording.
SourcedContent == JObj(<< <<"reclamante", Field("Joao da Silva", "fls. 10")>> >>)
UnknownSourceContent == JObj(<< <<"reclamante", Field("Joao da Silva", "fls. 999")>> >>)
NoSourceContent == JObj(<< <<"total", JObj(<< <<"valor", JStr("R$ 500,00")>> >>)>> >>)
VagueContent ==
    JObj(<< <<"nota", JStr("talvez seja devido")>>,
            <<"pedido", Field("horas extras", "fls. 55")>> >>)

\* a monetary value without fonte next to hedged wording
VagueNoSourceContent ==
    JObj(<< <<"nota", JStr("talvez seja devido")>>,
            <<"total", JObj(<< <<"valor", JStr("R$ 500,00")>> >>)>> >>)

\* How the model calls of one _generate_section can end.
GenerationCalls ==
    { <<CallContent(SourcedContent)>>,
      <<CallContent(UnknownSourceContent)>>,
      <<CallContent(NoSourceContent)>>,
      <<CallContent(VagueContent)>>,
      <<CallEnds("other")>> }

\* How the model calls of one regenerate_section can end.
RegenerationCalls ==
    { <<CallContent(SourcedContent)>>,
      <<CallContent(VagueNoSourceContent)>>,
      <<CallEnds("other")>> }

GeneratorIdle ==
    /\ gen_section = ""
    /\ gen_calls = <<>>
    /\ gen_result = NoSection

\* A text the adapter reads from a file: its number of words and of characters
\* other than blank, newline and tab
Text(words, chars) == [readable |-> TRUE, words |-> words, chars |-> chars]

\* The content of a file on which adapter.read_text raises
Unreadable == [readable |-> FALSE, words |-> 0, chars |-> 0]

\* What a path is: nothing, a directory, or a file
Missing == [kind |-> "missing", text |-> Unreadable]
Directory == [kind |-> "directory", text |-> Unreadable]
File(content) == [kind |-> "file", text |-> content]

\* summary = None
NoSummary == [none |-> TRUE]

\* custom_types/document_result.py (page_count and processing_time_ms left out)
DocumentResult(file_path, st, summary, error_message, word_count) ==
    [file_path |-> file_path, status |-> st, summary |-> summary,
     error_message |-> error_message, word_count |-> word_count]

NoDocumentResult == DocumentResult("", "none", NoSummary, "", 0)

\* No call of the document service has been made
NoCall ==
    [op |-> "none", file_paths |-> <<>>, found |-> Missing, kind |-> "none",
     raised |-> "", value |-> NoDocumentResult]

DocumentIdle ==
    /\ has_adapter = TRUE
    /\ enable_cache = TRUE
    /\ service_cache = <<>>
    /\ file_system = <<>>
    /\ call_outcome = NoCall
    /\ processed_dir = {}

(***************************************************************************)
(* Specification of ProcessMemory and of consolidate(memory)               *)
(***************************************************************************)
MemAdd ==
    /\ phase = "build"
    /\ Len(memory.extractions) < MaxExtractions
    /\ \E e \in ExtractionPool : memory' = add_extraction(memory, e)
    /\ UNCHANGED <<phase, consVars, runVars>>

\* consolidate(memory) is entered: temas = memory.get_all_temas()
ConsolidateStart ==
    /\ phase \in {"build", "layer4"}
    /\ phase' = "consolidate"
    /\ cons_temas' = get_all_temas(memory)
    /\ UNCHANGED <<memory, cons_tema, cons_attempt, consolidated, api_calls, runVars>>

\* next theme of the loop, len(extractions) == 1: no model call
ConsolidateSingle ==
    /\ phase = "consolidate" /\ cons_tema = ""
    /\ \E tema \in cons_temas :
          LET exts == get_by_tema(memory, tema)
          IN /\ Len(exts) = 1
             /\ consolidated' =
                  AppendResult(consolidated,
                               create_single_source_consolidation(tema, exts[1]))
             /\ cons_temas' = cons_temas \ {tema}
    /\ UNCHANGED <<memory, phase, cons_tema, cons_attempt, api_calls, runVars>>

\* next theme of the loop, several extractions: the retry loop is entered
ConsolidateMulti ==
    /\ phase = "consolidate" /\ cons_tema = ""
    /\ \E tema \in cons_temas :
          /\ Len(get_by_tema(memory, tema)) > 1
          /\ cons_tema' = tema
          /\ cons_temas' = cons_temas \ {tema}
    /\ cons_attempt' = 0
    /\ UNCHANGED <<memory, phase, consolidated, api_calls, runVars>>

\* the awaited model call returns a response
ApiReturn ==
    /\ phase = "consolidate" /\ cons_tema # ""
    /\ \E resp \in ConsolidationResponses :
          consolidated' =
            AppendResult(consolidated,
                         call_consolidation_api(resp, cons_tema,
                                                get_by_tema(memory, cons_tema)))
    /\ api_calls' = api_calls \cup {cons_tema}
    /\ cons_tema' = ""
    /\ UNCHANGED <<memory, phase, cons_temas, cons_attempt, runVars>>

\* the awaited model call raises RateLimitError or APIConnectionError
ApiTransientError ==
    /\ phase = "consolidate" /\ cons_tema # ""
    /\ api_calls' = api_calls \cup {cons_tema}
    /\ IF cons_attempt = ConsolidatorMaxRetries - 1
       THEN /\ consolidated' =
                 AppendResult(consolidated,
                              create_fallback_consolidation(cons_tema, memory))
            /\ cons_tema' = ""
            /\ UNCHANGED cons_attempt
       ELSE /\ cons_attempt' = cons_attempt + 1
            /\ UNCHANGED <<consolidated, cons_tema>>
    /\ UNCHANGED <<memory, phase, cons_temas, runVars>>

\* the awaited model call raises any other exception
ApiOtherError ==
    /\ phase = "consolidate" /\ cons_tema # ""
    /\ api_calls' = api_calls \cup {cons_tema}
    /\ consolidated' =
         AppendResult(consolidated, create_fallback_consolidation(cons_tema, memory))
    /\ cons_tema' = ""
    /\ UNCHANGED <<memory, phase, cons_temas, cons_attempt, runVars>>

\* the loop over temas is over: consolidate returns
ConsolidateReturn ==
    /\ phase = "consolidate" /\ cons_tema = "" /\ cons_temas = {}
    /\ phase' = "consolidated"
    /\ UNCHANGED <<memory, consVars, runVars>>

NoResult ==
    [secoes |-> <<>>, total_extracoes |-> 0, temas_consolidados |-> 0,
     conflitos_encontrados |-> 0, pendencias |-> <<>>]

(***************************************************************************)
(* utils/legal_chunker.py.  A text is its sequence of lines; a line is the *)
(* document type whose start pattern it matches ("" if none) and its       *)
(* number of words (0 for a blank line).  The k-th word of line i is       *)
(* <<i, k>>, so every word of a text is distinct.                          *)
(***************************************************************************)
MaxLines == 4
MaxLineWords == 2
\* self.min_words and self.max_words of the chunker, scaled to the texts above
ChunkerMinWords == 2
ChunkerMaxWords == 3

Line(marker, n) == [marker |-> marker, n |-> n]

LineKinds ==
    {Line("sentenca", n) : n \in 1..MaxLineWords} \cup {Line("holerite", 1)}
    \cup {Line("", n) : n \in 0..MaxLineWords}

Texts == UNION {[1..len -> LineKinds] : len \in 1..MaxLines}

LineWords(text, i) == [k \in 1..text[i].n |-> <<i, k>>]

\* the words of text[pos:end_pos], lines a..b
WordsOf(text, a, b) == Concat([i \in 1..(b - a + 1) |-> LineWords(text, a + i - 1)])

\* text.split()
AllWords(text) == WordsOf(text, 1, Len(text))

create_chunk(chunk_id, texto, tipo) ==
    [chunk_id |-> chunk_id, texto |-> texto, tipo_provavel |-> tipo,
     palavra_count |-> Len(texto)]

\* the lines a DOCUMENT_START_PATTERNS entry matches, in position order
Markers(text) ==
    SelectSeq([i \in 1..Len(text) |-> i], LAMBDA i : text[i].marker # "")

split_by_document_markers(text) ==
    LET markers == Markers(text)
    IN IF markers = <<>>
       THEN <<create_chunk(0, AllWords(text), "outros")>>
       ELSE LET candidates ==
                  [i \in 1..Len(markers) |->
                     create_chunk(i - 1,
                                  WordsOf(text, markers[i],
                                          IF i < Len(markers) THEN markers[i + 1] - 1
                                          ELSE Len(text)),
                                  text[markers[i]].marker)]
            IN SelectSeq(candidates, LAMBDA c : c.palavra_count >= ChunkerMinWords)

NoParagraph == [words |-> <<>>, tipo |-> ""]

RECURSIVE ParagraphsFrom(_, _, _)
\* re.split(r'\n\s*\n', text) without the empty pieces: the maximal runs of
\* lines that hold a word; tipo is the start pattern its first line matches
ParagraphsFrom(text, i, cur) ==
    LET done == IF cur.words = <<>> THEN <<>> ELSE <<cur>>
    IN IF i > Len(text) THEN done
       ELSE IF text[i].n = 0 THEN done \o ParagraphsFrom(text, i + 1, NoParagraph)
       ELSE ParagraphsFrom(text, i + 1,
                           [words |-> cur.words \o LineWords(text, i),
                            tipo |-> IF cur.words = <<>> THEN text[i].marker
                                     ELSE cur.tipo])

\* _detect_document_type: the pattern the chunk starts with, "outros" when
\* none (the wording heuristics find nothing in the words of the model)
detect_document_type(paras) == IF paras[1].tipo = "" THEN "outros" ELSE paras[1].tipo

ParagraphChunk(paras, chunk_index) ==
    create_chunk(chunk_index,
                 Concat([j \in 1..Len(paras) |-> paras[j].words]),
                 detect_document_type(paras))

RECURSIVE AccumulateParagraphs(_, _, _, _)
\* the loop of _split_by_paragraphs from paragraph k on
AccumulateParagraphs(paras, k, current_text, chunks) ==
    LET current_word_count ==
            Len(Concat([j \in 1..Len(current_text) |-> current_text[j].words]))
    IN IF k > Len(paras)
       THEN IF current_text # <<>>
            THEN Append(chunks, ParagraphChunk(current_text, Len(chunks)))
            ELSE chunks
       ELSE IF /\ current_word_count + Len(paras[k].words) > ChunkerMaxWords
               /\ current_text # <<>>
       THEN AccumulateParagraphs(paras, k + 1, <<paras[k]>>,
                                 Append(chunks,
                                        ParagraphChunk(current_text, Len(chunks))))
       ELSE AccumulateParagraphs(paras, k + 1, Append(current_text, paras[k]), chunks)

split_by_paragraphs(text) ==
    AccumulateParagraphs(ParagraphsFrom(text, 1, NoParagraph), 1, <<>>, <<>>)

split_large_chunk(chunk) ==
    LET len == Len(chunk.texto)
        pieces == (len + ChunkerMaxWords - 1) \div ChunkerMaxWords
    IN [i \in 1..pieces |->
          LET last == IF i * ChunkerMaxWords < len THEN i * ChunkerMaxWords ELSE len
          IN create_chunk(<<chunk.chunk_id, i - 1>>,
                          SubSeq(chunk.texto, (i - 1) * ChunkerMaxWords + 1, last),
                          chunk.tipo_provavel)]

\* A size pass that only renumbers the chunks
enforce_size_limits_renumber_only(chunks) ==
    [i \in 1..Len(chunks) |-> [chunks[i] EXCEPT !.chunk_id = i - 1]]

enforce_size_limits(chunks) ==
    LET limited == Concat([i \in 1..Len(chunks) |->
                            IF chunks[i].palavra_count <= ChunkerMaxWords
                            THEN <<chunks[i]>>
                            ELSE split_large_chunk(chunks[i])])
    IN [i \in 1..Len(limited) |-> [limited[i] EXCEPT !.chunk_id = i - 1]]

chunk(text) ==
    IF AllWords(text) = <<>> THEN <<>>
    ELSE LET by_markers == split_by_document_markers(text)
         IN enforce_size_limits(IF Len(by_markers) <= 1
                                THEN split_by_paragraphs(text)
                                ELSE by_markers)

ChunkerIdle ==
    /\ chunker_text = <<>>
    /\ chunker_chunks = <<>>

(***************************************************************************)
(* core/factual_extractor.py                                               *)
(***************************************************************************)
MaxChunks == 3
MaxParallel == 2
ExtractorMaxRetries == 3

\* The chunks extract_from_chunks is called with
ChunkOf(i) ==
    [chunk_id |-> i, tipo_provavel |-> "sentenca", localizacao_inicio |-> "fls. 10"]

\* The value None of Optional[ChunkExtraction]
NoExtraction ==
    [chunk_id |-> 0, tipo_evento |-> "None", temas |-> <<>>, parametros |-> <<>>,
     localizacao |-> ""]

\* What the model can answer to an extraction request.  kind is "empty" (no
\* content), "unparseable" (no JSON in the text), "empty_object" ({}) or
\* "object"; an absent key is the string "absent".
ExtractionData(kind, tipo_evento, temas, localizacao) ==
    [kind |-> kind, tipo_evento |-> tipo_evento, temas |-> temas,
     parametros |-> << <<"percentual", "50%">> >>, localizacao |-> localizacao]

ExtractionResponses ==
    { ExtractionData("empty", "absent", <<>>, "absent"),
      ExtractionData("unparseable", "absent", <<>>, "absent"),
      ExtractionData("empty_object", "absent", <<>>, "absent"),
      ExtractionData("object", "holerite", <<"horas_extras">>, "fls. 55"),
      ExtractionData("object", "absent", <<"tema_desconhecido", "tema_inexistente">>,
                     "nao informado") }

\* Tema(tema_str), with ValueError turned into Tema.OUTROS
ToTema(tema_str) == IF tema_str \in Tema THEN tema_str ELSE "outros"

parse_extraction_response(resp, ck) ==
    IF resp.kind \in {"unparseable", "empty_object"} THEN NoExtraction
    ELSE LET tipo_str == IF resp.tipo_evento = "absent" THEN ck.tipo_provavel
                         ELSE resp.tipo_evento
             temas == [i \in 1..Len(resp.temas) |-> ToTema(resp.temas[i])]
             localizacao == IF resp.localizacao = "absent"
                            THEN ck.localizacao_inicio ELSE resp.localizacao
         IN [chunk_id |-> ck.chunk_id,
             tipo_evento |-> IF tipo_str \in TipoEvento THEN tipo_str ELSE "outros",
             temas |-> IF temas = <<>> THEN <<"outros">> ELSE temas,
             parametros |-> resp.parametros,
             localizacao |-> IF localizacao \in {"", "nao informado"}
                             THEN ck.localizacao_inicio ELSE localizacao]

\* _call_extraction_api once the model has answered with resp
call_extraction_api(resp, ck) ==
    IF resp.kind = "empty" THEN NoExtraction
    ELSE parse_extraction_response(resp, ck)

\* A task of gather: st is "waiting" (for the semaphore), "calling" (model
\* request in flight), "sleeping" (backoff between retries) or "done";
\* answer is the kind of the last model answer, "error" after an exception.
\* outcomes is how each model call made so far ended ("transient", "other" or
\* the kind of the answer) and slept the backoff sleeps so far, in half seconds.
Task(st, attempt, answer, res, outcomes, slept) ==
    [st |-> st, attempt |-> attempt, answer |-> answer, result |-> res,
     outcomes |-> outcomes, slept |-> slept]

\* wait_time = (2 ** attempt) + (attempt * 0.5), in half seconds
wait_time(attempt) == 2 * (2 ^ attempt) + attempt

ExtractorIdle ==
    /\ max_parallel = 1
    /\ tasks = <<>>
    /\ semaphore = 0
    /\ extracted = <<>>

Runs == {1, 2}

\* self.memory = None, no summarize call made
NoRun ==
    [pc |-> "idle", extractions |-> <<>>, reads |-> {}, attempts |-> 0,
     conflitos_encontrados |-> 0, pendencias |-> <<>>]

SharedIdle ==
    /\ inst_memory = [owner |-> 0, mem |-> EmptyMemory]
    /\ runs = [r \in Runs |-> NoRun]

\* No run of summarize is in progress.
RunIdle ==
    /\ max_regeneration_attempts = 0
    /\ extractions = <<>>
    /\ sections = <<>>
    /\ to_regenerate = <<>>
    /\ regen_idx = 0
    /\ attempts = 0
    /\ errors = <<>>
    /\ current_section = NoSection
    /\ section_map = <<>>
    /\ final_sections = <<>>
    /\ result = NoResult
    /\ regen_calls = [n \in Range(SECTION_ORDER) |-> 0]
    /\ SharedIdle
    /\ ChunkerIdle
    /\ ExtractorIdle
    /\ GeneratorIdle
    /\ DocumentIdle

InitMemory ==
    /\ memory = EmptyMemory
    /\ phase = "build"
    /\ cons_temas = {}
    /\ cons_tema = ""
    /\ cons_attempt = 0
    /\ consolidated = <<>>
    /\ api_calls = {}
    /\ RunIdle

NextMemory ==
    \/ MemAdd
    \/ ConsolidateStart
    \/ ConsolidateSingle
    \/ ConsolidateMulti
    \/ ApiReturn
    \/ ApiTransientError
    \/ ApiOtherError
    \/ ConsolidateReturn

SpecMemory == InitMemory /\ [][NextMemory]_vars

(***************************************************************************)
(* core/anti_hallucination_summarizer.py: one run of summarize, from the   *)
(* list of extractions Layer 2 returned to the final result.               *)
(***************************************************************************)
MaxRegenerationAttempts == 2
DeviatingPrefix == 2

\* Mutant: the while condition lets one more iteration through
regeneration_allowed_once_more(att, max) == att <= max + 1

\* while attempts <= self.max_regeneration_attempts
regeneration_allowed(att, max) == att <= max

\* section_map = {s.secao: s for s in sections}
SectionMapOf(secs) ==
    [n \in {secs[i].secao : i \in 1..Len(secs)} |->
        secs[CHOOSE i \in 1..Len(secs) :
                /\ secs[i].secao = n
                /\ \A j \in (i + 1)..Len(secs) : secs[j].secao # n]]

\* current_section.tentativas = attempts; section_map[section_name] = current_section
FinishSection(map, section_name, cur, att) ==
    [map EXCEPT ![section_name] = [cur EXCEPT !.tentativas = att]]

RECURSIVE SkipClosedLoops(_, _, _, _)
\* The for loop from position idx on, as far as it runs without awaiting:
\* a while loop whose condition is false on entry (attempts = 1) leaves the section as it is and records attempts = 1.
SkipClosedLoops(map, idx, toreg, max) ==
    IF idx > Len(toreg) \/ regeneration_allowed(1, max) THEN [map |-> map, idx |-> idx]
    ELSE SkipClosedLoops(
            FinishSection(map, toreg[idx][1], map[toreg[idx][1]], 1),
            idx + 1, toreg, max)

\* A rebuild that leaves out the sections whose generation failed
RebuildSections_without_failed(secs, map) ==
    SelectSeq([i \in 1..Len(secs) |->
                  IF secs[i].secao \in DOMAIN map THEN map[secs[i].secao] ELSE secs[i]],
              LAMBDA sec : ~HasKey(sec.conteudo.kv, "erro"))

\* "Reconstroi lista na ordem correta"
RebuildSections(secs, map) ==
    [i \in 1..Len(secs) |->
        IF secs[i].secao \in DOMAIN map THEN map[secs[i].secao] ELSE secs[i]]

\* The for loop goes on at position idx of toreg with section_map = map:
\* either the next regenerate_section is awaited or _layer6_validation returns.
ContinueLoop(map, idx, toreg) ==
    LET r == SkipClosedLoops(map, idx, toreg, max_regeneration_attempts)
    IN IF r.idx > Len(toreg)
       THEN /\ final_sections' = RebuildSections(sections, r.map)
            /\ section_map' = r.map
            /\ phase' = "final"
            /\ regen_idx' = r.idx
            /\ attempts' = 0
            /\ errors' = <<>>
            /\ current_section' = NoSection
       ELSE /\ section_map' = r.map
            /\ regen_idx' = r.idx
            /\ attempts' = 1
            /\ errors' = toreg[r.idx][2]
            /\ current_section' = r.map[toreg[r.idx][1]]
            /\ phase' = "regen"
            /\ UNCHANGED final_sections

\* The strings of pendencias: f"{gap.tema.value}: {gap.descricao}", tipo "gap",
\* and f"{section.secao}: {error.mensagem}", tipo "validacao"; tipo records
\* which of the two loops appended the string.
Pendencia(tipo, origem, texto) == [tipo |-> tipo, origem |-> origem, texto |-> texto]

SectionPendencias(sec) ==
    IF ~sec.validacao_ok
    THEN [j \in 1..Len(sec.erros_validacao) |->
            Pendencia("validacao", sec.secao, sec.erros_validacao[j].mensagem)]
    ELSE <<>>

build_final_result(secs, total_extractions, temas_consolidados, m) ==
    LET gaps == detect_gaps(m)
    IN [secoes |-> secs,
        total_extracoes |-> total_extractions,
        temas_consolidados |-> temas_consolidados,
        conflitos_encontrados |-> Len(detect_conflicts(m)),
        pendencias |->
            [g \in 1..Len(gaps) |->
                Pendencia("gap", gaps[g].tema, Message(gaps[g].descricao, <<>>))]
            \o Concat([i \in 1..Len(secs) |-> SectionPendencias(secs[i])])]

\* _layer3_memory: self.memory = ProcessMemory(); self.memory.add_extractions(...)
Layer3Memory ==
    /\ phase = "layer3"
    /\ \E batch \in RunBatches :
          /\ extractions' = batch
          /\ memory' = add_extractions(EmptyMemory, batch)
    /\ phase' = "layer4"
    /\ UNCHANGED <<consVars, fixedVars, sections, l6Vars, result>>

\* _layer5_generation: generate_sections builds the nine sections in order
Layer5Generation ==
    /\ phase = "consolidated"
    /\ \E calls \in [1..DeviatingPrefix -> GenerationCalls] :
          sections' =
            [i \in 1..Len(SECTION_ORDER) |->
                generate_section(SECTION_ORDER[i],
                                 IF i <= DeviatingPrefix THEN calls[i]
                                 ELSE <<CallContent(SourcedContent)>>)]
    /\ phase' = "layer6"
    /\ UNCHANGED <<memory, consVars, fixedVars, extractions, l6Vars,
                   result>>

\* _layer6_validation up to its first await, or to its return
Layer6Validation ==
    /\ phase = "layer6"
    /\ LET toreg == get_sections_to_regenerate(validate_all_sections(sections))
       IN /\ to_regenerate' = toreg
          /\ IF toreg = <<>>
             THEN /\ final_sections' = sections
                  /\ phase' = "final"
                  /\ UNCHANGED <<regen_idx, attempts, errors, current_section,
                                 section_map>>
             ELSE ContinueLoop(SectionMapOf(sections), 1, toreg)
    /\ UNCHANGED <<memory, consVars, fixedVars, extractions, sections,
                   result, regen_calls>>

\* the awaited regenerate_section returns; the loop runs on to its next await
RegenerateSection ==
    /\ phase = "regen"
    /\ \E calls \in RegenerationCalls :
          LET section_name == to_regenerate[regen_idx][1]
              regenerated == generate_section(section_name, calls)
              v == validate_section(regenerated)
          IN IF v.passed
             THEN ContinueLoop(
                     FinishSection(section_map, section_name, regenerated, attempts),
                     regen_idx + 1, to_regenerate)
             ELSE IF regeneration_allowed(attempts + 1, max_regeneration_attempts)
             THEN /\ errors' = [j \in 1..Len(v.errors) |-> v.errors[j].mensagem]
                  /\ current_section' = regenerated
                  /\ attempts' = attempts + 1
                  /\ UNCHANGED <<phase, regen_idx, section_map, final_sections>>
             ELSE ContinueLoop(
                     FinishSection(section_map, section_name, regenerated,
                                   attempts + 1),
                     regen_idx + 1, to_regenerate)
    /\ regen_calls' = [regen_calls EXCEPT ![to_regenerate[regen_idx][1]] = @ + 1]
    /\ UNCHANGED <<memory, consVars, fixedVars, extractions, sections,
                   to_regenerate, result>>

\* _build_final_result and the return of summarize
BuildFinalResult ==
    /\ phase = "final"
    /\ result' = build_final_result(final_sections, Len(extractions),
                                    Len(consolidated), memory)
    /\ phase' = "done"
    /\ UNCHANGED <<memory, consVars, fixedVars, extractions, sections,
                   l6Vars>>

Init ==
    /\ memory = EmptyMemory
    /\ phase = "layer3"
    /\ cons_temas = {}
    /\ cons_tema = ""
    /\ cons_attempt = 0
    /\ consolidated = <<>>
    /\ api_calls = {}
    /\ max_regeneration_attempts \in 0..MaxRegenerationAttempts
    /\ extractions = <<>>
    /\ sections = <<>>
    /\ to_regenerate = <<>>
    /\ regen_idx = 0
    /\ attempts = 0
    /\ errors = <<>>
    /\ current_section = NoSection
    /\ section_map = <<>>
    /\ final_sections = <<>>
    /\ result = NoResult
    /\ regen_calls = [n \in Range(SECTION_ORDER) |-> 0]
    /\ SharedIdle
    /\ ChunkerIdle
    /\ ExtractorIdle
    /\ GeneratorIdle
    /\ DocumentIdle

Next ==
    \/ Layer3Memory
    \/ ConsolidateStart
    \/ ConsolidateSingle
    \/ ConsolidateMulti
    \/ ApiReturn
    \/ ApiTransientError
    \/ ApiOtherError
    \/ ConsolidateReturn
    \/ Layer5Generation
    \/ Layer6Validation
    \/ RegenerateSection
    \/ BuildFinalResult

Spec == Init /\ [][Next]_vars

\* The return value of summarize for empty text: {"erro": "Texto vazio"}
empty_text_result(erro) == [erro |-> erro]

\* The return value of the except clause of summarize:
\* {"erro": str(e), "pipeline_stage": "unknown"}
error_result(erro) == [erro |-> erro, pipeline_stage |-> "unknown"]

\* The phases of a run in which one of the layers, or the building of the final
\* result, is executing ("layer3" stands for Layers 1 to 3)
Running == {"layer3", "layer4", "consolidate", "consolidated", "layer6", "regen", "final"}

\* An Exception is raised inside the try block of summarize: the except clause
\* returns the error object; the locals of the run are gone, self.memory stays
PipelineRaises ==
    /\ phase \in Running
    /\ result' = error_result(<<"raised in", phase>>)
    /\ phase' = "failed"
    /\ cons_temas' = {}
    /\ cons_tema' = ""
    /\ cons_attempt' = 0
    /\ consolidated' = <<>>
    /\ api_calls' = {}
    /\ extractions' = <<>>
    /\ sections' = <<>>
    /\ to_regenerate' = <<>>
    /\ regen_idx' = 0
    /\ attempts' = 0
    /\ errors' = <<>>
    /\ current_section' = NoSection
    /\ section_map' = <<>>
    /\ final_sections' = <<>>
    /\ UNCHANGED <<memory, fixedVars, regen_calls>>

NextRaising ==
    \/ Next
    \/ PipelineRaises

\* summarize with layers that can raise
SpecRaising == Init /\ [][NextRaising]_vars

\* Every awaited regenerate_section returns: _generate_section catches every
\* exception of the model call and the client gives up after its timeout.
SpecLive == Spec /\ WF_vars(RegenerateSection)

(***************************************************************************)
(* Two summarize calls on one AntiHallucinationSummarizer, as the tasks    *)
(* process_batch gathers: each action is one run's code between two        *)
(* suspension points.  reads records, per layer, whose ProcessMemory       *)
(* self.memory was when the run read it.                                   *)
(***************************************************************************)
singleVars == <<memory, phase, consVars, extractions, sections, l6Vars, result>>

\* consolidate awaits a model call only for a theme with several extractions
ConsolidationAwaits(m) ==
    \E tema \in get_all_temas(m) : Len(get_by_tema(m, tema)) > 1

ReadAt(run, layer) == [run EXCEPT !.reads = @ \cup {<<layer, inst_memory.owner>>}]

\* _build_final_result: conflicts and gaps of whatever self.memory is now
Finished(run) ==
    LET res == build_final_result(<<>>, Len(run.extractions), 0, inst_memory.mem)
    IN [ReadAt(run, "final") EXCEPT
          !.pc = "done",
          !.conflitos_encontrados = res.conflitos_encontrados,
          !.pendencias = res.pendencias]

\* _layer5_generation: generate_sections(consolidated, self.memory) is awaited
EnterLayer5(run, owner) ==
    [run EXCEPT !.pc = "layer5", !.reads = @ \cup {<<"layer5", owner>>}]

\* summarize is called: Layer 1 chunks the text, Layer 2 awaits the extractor
SummarizeCall(r) ==
    /\ runs[r].pc = "idle"
    /\ runs' = [runs EXCEPT ![r].pc = "layer2"]
    /\ UNCHANGED <<singleVars, max_regeneration_attempts, inst_memory, chunkerVars, extractorVars, generatorVars,
                   documentVars>>

\* Layer 2 returns; Layer 3 replaces self.memory; Layer 4 hands self.memory to
\* consolidate, which may return without suspending; then Layer 5 starts
Layer2Return(r) ==
    /\ runs[r].pc = "layer2"
    /\ \E batch \in RunBatches :
          LET m == add_extractions(EmptyMemory, batch)
              run == [runs[r] EXCEPT !.extractions = batch,
                                     !.reads = @ \cup {<<"layer4", r>>}]
          IN /\ inst_memory' = [owner |-> r, mem |-> m]
             /\ runs' = [runs EXCEPT ![r] =
                           IF ConsolidationAwaits(m)
                           THEN [run EXCEPT !.pc = "layer4"]
                           ELSE EnterLayer5(run, r)]
    /\ UNCHANGED <<singleVars, max_regeneration_attempts, chunkerVars, extractorVars, generatorVars,
                   documentVars>>

\* the awaited consolidate returns; Layer 5 reads self.memory
Layer4Return(r) ==
    /\ runs[r].pc = "layer4"
    /\ runs' = [runs EXCEPT ![r] = EnterLayer5(runs[r], inst_memory.owner)]
    /\ UNCHANGED <<singleVars, max_regeneration_attempts, inst_memory, chunkerVars, extractorVars, generatorVars,
                   documentVars>>

\* the awaited generate_sections returns; Layer 6 validates and either awaits
\* the first regenerate_section(.., self.memory, ..) or returns, and then the
\* final result is built
Layer5Return(r) ==
    /\ runs[r].pc = "layer5"
    /\ \E calls \in GenerationCalls :
          LET failed == ~validate_section(generate_section(SECTION_ORDER[1], calls)).passed
          IN runs' = [runs EXCEPT ![r] =
                        IF failed /\ regeneration_allowed(1, max_regeneration_attempts)
                        THEN [ReadAt(runs[r], "layer6") EXCEPT
                                !.pc = "layer6", !.attempts = 1]
                        ELSE Finished(runs[r])]
    /\ UNCHANGED <<singleVars, max_regeneration_attempts, inst_memory, chunkerVars, extractorVars, generatorVars,
                   documentVars>>

\* the awaited regenerate_section returns
RegenerateReturn(r) ==
    /\ runs[r].pc = "layer6"
    /\ \E calls \in RegenerationCalls :
          LET passed == validate_section(generate_section(SECTION_ORDER[1], calls)).passed
          IN runs' = [runs EXCEPT ![r] =
                        IF ~passed /\ regeneration_allowed(runs[r].attempts + 1,
                                                           max_regeneration_attempts)
                        THEN [ReadAt(runs[r], "layer6") EXCEPT !.attempts = @ + 1]
                        ELSE Finished(runs[r])]
    /\ UNCHANGED <<singleVars, max_regeneration_attempts, inst_memory, chunkerVars, extractorVars, generatorVars,
                   documentVars>>

InitShared ==
    /\ memory = EmptyMemory
    /\ phase = "shared"
    /\ cons_temas = {}
    /\ cons_tema = ""
    /\ cons_attempt = 0
    /\ consolidated = <<>>
    /\ api_calls = {}
    /\ max_regeneration_attempts \in 0..MaxRegenerationAttempts
    /\ extractions = <<>>
    /\ sections = <<>>
    /\ to_regenerate = <<>>
    /\ regen_idx = 0
    /\ attempts = 0
    /\ errors = <<>>
    /\ current_section = NoSection
    /\ section_map = <<>>
    /\ final_sections = <<>>
    /\ result = NoResult
    /\ regen_calls = [n \in Range(SECTION_ORDER) |-> 0]
    /\ SharedIdle
    /\ ChunkerIdle
    /\ ExtractorIdle
    /\ GeneratorIdle
    /\ DocumentIdle

NextShared ==
    \E r \in Runs :
        \/ SummarizeCall(r)
        \/ Layer2Return(r)
        \/ Layer4Return(r)
        \/ Layer5Return(r)
        \/ RegenerateReturn(r)

SpecShared == InitShared /\ [][NextShared]_vars

\* C12: every read of self.memory a run makes in Layers 4, 5 and 6 and for
\* the final metadata finds the ProcessMemory that run built, and the
\* metadata of a finished run are those of its own extractions.
C12_RunsReadOwnMemory ==
    \A r \in Runs :
      /\ \A rd \in runs[r].reads : rd[2] = r
      /\ runs[r].pc = "done" =>
           LET own == add_extractions(EmptyMemory, runs[r].extractions)
           IN /\ runs[r].conflitos_encontrados = Len(detect_conflicts(own))
              /\ Len(runs[r].pendencias) = Len(detect_gaps(own))

(***************************************************************************)
(* Specification of LegalChunker.chunk                                     *)
(***************************************************************************)
ChunkCall ==
    /\ phase = "chunk"
    /\ chunker_chunks' = chunk(chunker_text)
    /\ phase' = "chunked"
    /\ UNCHANGED <<memory, consVars, extractions, sections, l6Vars, result,
                   max_regeneration_attempts, sharedVars, chunker_text, extractorVars, generatorVars,
                   documentVars>>

InitChunker ==
    /\ memory = EmptyMemory
    /\ phase = "chunk"
    /\ cons_temas = {}
    /\ cons_tema = ""
    /\ cons_attempt = 0
    /\ consolidated = <<>>
    /\ api_calls = {}
    /\ max_regeneration_attempts = 0
    /\ extractions = <<>>
    /\ sections = <<>>
    /\ to_regenerate = <<>>
    /\ regen_idx = 0
    /\ attempts = 0
    /\ errors = <<>>
    /\ current_section = NoSection
    /\ section_map = <<>>
    /\ final_sections = <<>>
    /\ result = NoResult
    /\ regen_calls = [n \in Range(SECTION_ORDER) |-> 0]
    /\ SharedIdle
    /\ chunker_text \in Texts
    /\ chunker_chunks = <<>>
    /\ ExtractorIdle
    /\ GeneratorIdle
    /\ DocumentIdle

NextChunker == ChunkCall

SpecChunker == InitChunker /\ [][NextChunker]_vars

RECURSIVE IsSubsequence(_, _)
IsSubsequence(a, b) ==
    IF a = <<>> THEN TRUE
    ELSE IF b = <<>> THEN FALSE
    ELSE IF Head(a) = Head(b) THEN IsSubsequence(Tail(a), Tail(b))
    ELSE IsSubsequence(a, Tail(b))

ChunkTexts(chunks) == Concat([i \in 1..Len(chunks) |-> chunks[i].texto])

\* C14: for every text with at least one word, the words of the text appear,
\* in input order, in the concatenation of the texts of the chunks returned.
C14_ChunksCoverEveryWord ==
    (phase = "chunked" /\ AllWords(chunker_text) # <<>>) =>
      IsSubsequence(AllWords(chunker_text), ChunkTexts(chunker_chunks))

(***************************************************************************)
(* Specification of FactualExtractor.extract_from_chunks                   *)
(***************************************************************************)
extractorRest ==
    <<memory, consVars, extractions, sections, l6Vars, result,
      max_regeneration_attempts, sharedVars, chunkerVars, generatorVars, documentVars>>

\* A task that starts its request without waiting for a free slot
Acquire_without_semaphore(c) ==
    /\ phase = "extract"
    /\ tasks[c].st = "waiting"
    /\ semaphore' = semaphore - 1
    /\ tasks' = [tasks EXCEPT ![c].st = "calling"]
    /\ UNCHANGED <<phase, max_parallel, extracted, extractorRest>>

\* async with semaphore: a waiting task takes a free slot and sends its request
Acquire(c) ==
    /\ phase = "extract"
    /\ tasks[c].st = "waiting"
    /\ semaphore > 0
    /\ semaphore' = semaphore - 1
    /\ tasks' = [tasks EXCEPT ![c].st = "calling"]
    /\ UNCHANGED <<phase, max_parallel, extracted, extractorRest>>

\* _extract_from_chunk returns and the async with block releases the slot; the
\* finished coroutine has no loop counter any more
TaskEnds(c, answer, res, outcome) ==
    /\ tasks' = [tasks EXCEPT ![c] = Task("done", 0, answer, res,
                                          Append(tasks[c].outcomes, outcome),
                                          tasks[c].slept)]
    /\ semaphore' = semaphore + 1

\* the awaited model call returns a response
CallReturns(c) ==
    /\ phase = "extract"
    /\ tasks[c].st = "calling"
    /\ \E resp \in ExtractionResponses :
          TaskEnds(c, resp.kind, call_extraction_api(resp, ChunkOf(c)), resp.kind)
    /\ UNCHANGED <<phase, max_parallel, extracted, extractorRest>>

\* A retry loop that makes one call more before it gives up
CallTransientError_one_more(c) ==
    /\ phase = "extract"
    /\ tasks[c].st = "calling"
    /\ IF tasks[c].attempt = ExtractorMaxRetries
       THEN TaskEnds(c, "error", NoExtraction, "transient")
       ELSE /\ tasks' = [tasks EXCEPT ![c].st = "sleeping",
                                      ![c].outcomes = Append(@, "transient"),
                                      ![c].slept = Append(@, wait_time(tasks[c].attempt))]
            /\ UNCHANGED semaphore
    /\ UNCHANGED <<phase, max_parallel, extracted, extractorRest>>

\* the awaited model call raises RateLimitError or APIConnectionError
CallTransientError(c) ==
    /\ phase = "extract"
    /\ tasks[c].st = "calling"
    /\ IF tasks[c].attempt = ExtractorMaxRetries - 1
       THEN TaskEnds(c, "error", NoExtraction, "transient")
       ELSE /\ tasks' = [tasks EXCEPT ![c].st = "sleeping",
                                      ![c].outcomes = Append(@, "transient"),
                                      ![c].slept = Append(@, wait_time(tasks[c].attempt))]
            /\ UNCHANGED semaphore
    /\ UNCHANGED <<phase, max_parallel, extracted, extractorRest>>

\* await asyncio.sleep(wait_time) returns: next iteration of the retry loop
SleepEnds(c) ==
    /\ phase = "extract"
    /\ tasks[c].st = "sleeping"
    /\ tasks' = [tasks EXCEPT ![c].st = "calling", ![c].attempt = @ + 1]
    /\ UNCHANGED <<phase, max_parallel, semaphore, extracted, extractorRest>>

\* the awaited model call raises APIError or any other Exception
CallOtherError(c) ==
    /\ phase = "extract"
    /\ tasks[c].st = "calling"
    /\ TaskEnds(c, "error", NoExtraction, "other")
    /\ UNCHANGED <<phase, max_parallel, extracted, extractorRest>>

\* gather returns: the results that are not None, in chunk order
GatherReturns ==
    /\ phase = "extract"
    /\ \A c \in 1..Len(tasks) : tasks[c].st = "done"
    /\ extracted' =
         LET results == [c \in 1..Len(tasks) |-> tasks[c].result]
         IN SelectSeq(results, LAMBDA r : r # NoExtraction)
    /\ phase' = "extracted"
    /\ UNCHANGED <<max_parallel, tasks, semaphore, extractorRest>>

InitExtractor ==
    /\ memory = EmptyMemory
    /\ phase = "extract"
    /\ cons_temas = {}
    /\ cons_tema = ""
    /\ cons_attempt = 0
    /\ consolidated = <<>>
    /\ api_calls = {}
    /\ max_regeneration_attempts = 0
    /\ extractions = <<>>
    /\ sections = <<>>
    /\ to_regenerate = <<>>
    /\ regen_idx = 0
    /\ attempts = 0
    /\ errors = <<>>
    /\ current_section = NoSection
    /\ section_map = <<>>
    /\ final_sections = <<>>
    /\ result = NoResult
    /\ regen_calls = [n \in Range(SECTION_ORDER) |-> 0]
    /\ SharedIdle
    /\ ChunkerIdle
    /\ max_parallel \in 1..MaxParallel
    /\ \E n \in 0..MaxChunks : tasks = [c \in 1..n |-> Task("waiting", 0, "", NoExtraction, <<>>, <<>>)]
    /\ semaphore = max_parallel
    /\ extracted = <<>>
    /\ GeneratorIdle
    /\ DocumentIdle

NextExtractor ==
    \/ \E c \in 1..Len(tasks) :
          \/ Acquire(c)
          \/ CallReturns(c)
          \/ CallTransientError(c)
          \/ SleepEnds(c)
          \/ CallOtherError(c)
    \/ GatherReturns

SpecExtractor == InitExtractor /\ [][NextExtractor]_vars

(***************************************************************************)
(* Specification of SectionGenerator._generate_section, call by call       *)
(***************************************************************************)
generatorRest ==
    <<memory, consVars, extractions, sections, l6Vars, result,
      max_regeneration_attempts, sharedVars, chunkerVars, extractorVars, documentVars>>

\* The loop `for attempt in range(self.max_retries)` goes to its next iteration
\* after the call of iteration `attempt` ended as `call`
NextIteration(call, attempt) ==
    \/ /\ call.kind = "none" \/ (call.kind = "content" /\ ~Truthy(call.content))
       /\ attempt + 1 < GeneratorMaxRetries
    \/ /\ call.kind = "transient"
       /\ attempt # GeneratorMaxRetries - 1

\* The awaited call ended as `call`: the loop goes on, or the section is returned
GenerationCallEnds(call) ==
    /\ phase = "generate"
    /\ gen_calls' = Append(gen_calls, call)
    /\ IF NextIteration(call, Len(gen_calls))
       THEN UNCHANGED <<phase, gen_result>>
       ELSE /\ gen_result' = generate_section(gen_section, Append(gen_calls, call))
            /\ phase' = "generated"
    /\ UNCHANGED <<gen_section, generatorRest>>

\* _call_generation_api returns: a JSON object, {} or None
GenerationCallReturns ==
    \E call \in {CallContent(SourcedContent), CallContent(NoSourceContent),
                 CallContent(JObj(<<>>)), CallEnds("none")} :
        GenerationCallEnds(call)

\* _call_generation_api raises RateLimitError or APIConnectionError
GenerationCallTransientError == GenerationCallEnds(CallEnds("transient"))

\* _call_generation_api raises any other exception
GenerationCallOtherError == GenerationCallEnds(CallEnds("other"))

InitGenerator ==
    /\ memory = EmptyMemory
    /\ phase = "generate"
    /\ cons_temas = {}
    /\ cons_tema = ""
    /\ cons_attempt = 0
    /\ consolidated = <<>>
    /\ api_calls = {}
    /\ max_regeneration_attempts = 0
    /\ extractions = <<>>
    /\ sections = <<>>
    /\ to_regenerate = <<>>
    /\ regen_idx = 0
    /\ attempts = 0
    /\ errors = <<>>
    /\ current_section = NoSection
    /\ section_map = <<>>
    /\ final_sections = <<>>
    /\ result = NoResult
    /\ regen_calls = [n \in Range(SECTION_ORDER) |-> 0]
    /\ SharedIdle
    /\ ChunkerIdle
    /\ ExtractorIdle
    /\ gen_section \in Range(SECTION_ORDER)
    /\ gen_calls = <<>>
    /\ gen_result = NoSection
    /\ DocumentIdle

NextGenerator ==
    \/ GenerationCallReturns
    \/ GenerationCallTransientError
    \/ GenerationCallOtherError

SpecGenerator == InitGenerator /\ [][NextGenerator]_vars

(***************************************************************************)
(* services/document_service.py and the per-file handler of main.py        *)
(***************************************************************************)
Paths == {"a.pdf", "b.pdf"}

MinWords == 10
MinChars == 50

FileTexts == {Text(0, 0), Text(9, 60), Text(10, 49), Text(12, 80)}

FileStates == {Missing, Directory, File(Unreadable)} \cup {File(t) : t \in FileTexts}

\* What summarize returns (json.dumps of): the summary of a run in which no
\* section could be generated, or the error object of the except clause
SummaryOfRun ==
    build_final_result([i \in 1..Len(SECTION_ORDER) |-> FailedSection(SECTION_ORDER[i])],
                       0, 0, EmptyMemory)

SummarizeReturns == {SummaryOfRun, error_result(<<"raised in", "layer4">>)}

is_success(document_result) == document_result.status = "success"

\* _get_file_hash: md5 of path, size and mtime; the state of the file stands for
\* its size and mtime.  path.stat() raises FileNotFoundError on a missing path.
get_file_hash(file_path) == <<file_path, file_system[file_path]>>

\* d[k] = v
SetItem(d, k, v) ==
    IF HasKey(d, k)
    THEN [i \in 1..Len(d) |-> IF d[i][1] = k THEN <<k, v>> ELSE d[i]]
    ELSE Append(d, <<k, v>>)

\* _cache_result
cache_result(cache_on, cached_results, file_path, document_result) ==
    IF cache_on /\ is_success(document_result)
    THEN SetItem(cached_results, get_file_hash(file_path), document_result)
    ELSE cached_results

\* process_file on a service with the given adapter, enable_cache and _cache,
\* when summarize would return summ: what the caller gets, and the _cache left
process_file(adapter_set, cache_on, cached_results, file_path, summ) ==
    LET found == file_system[file_path]
        Raises(exception) ==
            [kind |-> "raised", raised |-> exception, value |-> NoDocumentResult,
             cache |-> cached_results]
        Returns(document_result) ==
            [kind |-> "returned", raised |-> "", value |-> document_result,
             cache |-> cache_result(cache_on, cached_results, file_path, document_result)]
        Gives(document_result) ==
            [kind |-> "returned", raised |-> "", value |-> document_result,
             cache |-> cached_results]
        Error(error_message) ==
            Gives(DocumentResult(file_path, "error", NoSummary, error_message, 0))
        EmptyContent(error_message) ==
            Gives(DocumentResult(file_path, "empty_content", NoSummary, error_message, 0))
    IN IF cache_on /\ found.kind = "missing" THEN Raises("FileNotFoundError")
       ELSE IF cache_on /\ HasKey(cached_results, get_file_hash(file_path))
       THEN Gives(Lookup(cached_results, get_file_hash(file_path)))
       ELSE IF ~adapter_set THEN Error("Adapter not set for DocumentService")
       ELSE IF found.kind = "missing" THEN Error("Arquivo nao encontrado")
       ELSE IF found.kind # "file" THEN Error("Caminho nao e um arquivo")
       ELSE IF ~found.text.readable THEN Error("read_text raised")
       ELSE IF found.text.chars = 0
       THEN EmptyContent("Nao foi possivel extrair texto do arquivo")
       ELSE IF found.text.words < MinWords
       THEN EmptyContent("Texto extraido muito curto")
       ELSE IF found.text.chars < MinChars
       THEN EmptyContent("Texto extraido contem muito poucos caracteres validos")
       ELSE Returns(DocumentResult(file_path, "success", summ, "", found.text.words))

documentRest ==
    <<memory, phase, consVars, extractions, sections, l6Vars, result,
      max_regeneration_attempts, sharedVars, chunkerVars, extractorVars, generatorVars>>

\* await document_service.process_file(file_path) on the long-lived service
ProcessFile ==
    /\ phase = "documents"
    /\ \E file_path \in Paths, summ \in SummarizeReturns :
          LET call == process_file(has_adapter, enable_cache, service_cache,
                                   file_path, summ)
          IN /\ call_outcome' =
                  [op |-> "process_file", file_paths |-> <<file_path>>,
                   found |-> file_system[file_path], kind |-> call.kind,
                   raised |-> call.raised, value |-> call.value]
             /\ service_cache' = call.cache
    /\ UNCHANGED <<has_adapter, enable_cache, file_system, processed_dir, documentRest>>

\* await document_service.process_batch(file_paths): an empty list gives an
\* empty BatchResult; otherwise `len[str](file_paths)` raises TypeError (the
\* builtin len cannot be subscripted) before any file is processed
ProcessBatch ==
    /\ phase = "documents"
    /\ \E file_paths \in {<<>>} \cup {<<f>> : f \in Paths}
                          \cup {<<f, g>> : f \in Paths, g \in Paths} :
          call_outcome' =
              [op |-> "process_batch", file_paths |-> file_paths, found |-> Missing,
               kind |-> IF file_paths = <<>> THEN "returned" ELSE "raised",
               raised |-> IF file_paths = <<>> THEN "" ELSE "TypeError",
               value |-> NoDocumentResult]
    /\ UNCHANGED <<has_adapter, enable_cache, service_cache, file_system,
                   processed_dir, documentRest>>

\* main.py, process_file_with_correct_adapter(file_path) for a file find_files
\* listed: a new DocumentService(adapter, summarizer), process_file, and on
\* success move_file_to_processed, which moves the file or fails
ProcessFileWithCorrectAdapter ==
    /\ phase = "documents"
    /\ \E file_path \in Paths, summ \in SummarizeReturns, moved \in BOOLEAN :
          LET call == process_file(TRUE, TRUE, <<>>, file_path, summ)
              moves == call.kind = "returned" /\ is_success(call.value) /\ moved
          IN /\ file_system[file_path].kind = "file"
             /\ call_outcome' =
                  [op |-> "process_file_with_correct_adapter",
                   file_paths |-> <<file_path>>,
                   found |-> file_system[file_path], kind |-> call.kind,
                   raised |-> call.raised, value |-> call.value]
             /\ file_system' =
                  IF moves THEN [file_system EXCEPT ![file_path] = Missing]
                  ELSE file_system
             /\ processed_dir' =
                  IF moves THEN processed_dir \cup {file_path} ELSE processed_dir
    /\ UNCHANGED <<has_adapter, enable_cache, service_cache, documentRest>>

InitDocument ==
    /\ memory = EmptyMemory
    /\ phase = "documents"
    /\ cons_temas = {}
    /\ cons_tema = ""
    /\ cons_attempt = 0
    /\ consolidated = <<>>
    /\ api_calls = {}
    /\ max_regeneration_attempts = 0
    /\ extractions = <<>>
    /\ sections = <<>>
    /\ to_regenerate = <<>>
    /\ regen_idx = 0
    /\ attempts = 0
    /\ errors = <<>>
    /\ current_section = NoSection
    /\ section_map = <<>>
    /\ final_sections = <<>>
    /\ result = NoResult
    /\ regen_calls = [n \in Range(SECTION_ORDER) |-> 0]
    /\ SharedIdle
    /\ ChunkerIdle
    /\ ExtractorIdle
    /\ GeneratorIdle
    /\ has_adapter \in BOOLEAN
    /\ enable_cache \in BOOLEAN
    /\ service_cache = <<>>
    /\ file_system \in [Paths -> FileStates]
    /\ call_outcome = NoCall
    /\ processed_dir = {}

NextDocument ==
    \/ ProcessFile
    \/ ProcessBatch
    \/ ProcessFileWithCorrectAdapter

SpecDocument == InitDocument /\ [][NextDocument]_vars

(***************************************************************************)
(* Claims on one run of summarize                                          *)
(***************************************************************************)
Returned == phase \in {"final", "done"}

Locations(m) == {m.extractions[i].localizacao : i \in 1..Len(m.extractions)}

RECURSIVE ValueFontes(_)
\* the non-empty fonte strings attached to a field with a real valor
ValueFontes(obj) ==
    (IF /\ obj.t = "obj"
        /\ HasKey(obj.kv, "valor") /\ Truthy(Lookup(obj.kv, "valor"))
        /\ ~IsPlaceholder(Lookup(obj.kv, "valor"))
        /\ ~LacksFonte(obj)
     THEN {Lookup(obj.kv, "fonte").s} ELSE {})
    \cup UNION {ValueFontes(obj.kv[i][2]) : i \in 1..Len(obj.kv)}

\* C1: in every section of the final result that passes validation, every
\* non-empty fonte attached to a field with a non-placeholder valor is the
\* localizacao of an extraction held by the run's memory.
C1_FontesAreRecordedLocations ==
    phase = "done" =>
      \A i \in 1..Len(result.secoes) :
        validate_section(result.secoes[i]).passed =>
          ValueFontes(result.secoes[i].conteudo) \subseteq Locations(memory)

\* The sections Layer 6 regenerated whose kept version still fails validation:
\* the loop ends at the first version that passes, so these are the sections
\* whose initial version and every regenerated version failed.
Kept(n) == final_sections[CHOOSE i \in 1..Len(final_sections) : final_sections[i].secao = n]

PerpetuallyFailing ==
    {n \in {to_regenerate[i][1] : i \in 1..Len(to_regenerate)} :
        ~validate_section(Kept(n)).passed}

RegenerationBounded ==
    /\ \A n \in Range(SECTION_ORDER) : regen_calls[n] <= max_regeneration_attempts
    /\ Returned =>
         \A n \in PerpetuallyFailing : regen_calls[n] = max_regeneration_attempts

\* C2: regenerate_section is never called more than max_regeneration_attempts
\* times for a section, it has been called exactly that many times for a
\* section that failed on every version when Layer 6 returns, and once the
\* regeneration loop is entered Layer 6 does return.
C2_RegenerationTerminates ==
    /\ []RegenerationBounded
    /\ (phase = "regen") ~> Returned

\* C2 witness: Layer 6 has returned a section that failed on its initial
\* version and on both of its two regenerations.
C2_Witness ==
    /\ Returned
    /\ max_regeneration_attempts = 2
    /\ \E n \in PerpetuallyFailing : regen_calls[n] = 2

\* C3: a section that fails validation on its initial version and on every
\* regeneration is returned with tentativas = max_regeneration_attempts.
C3_TentativasIsMaxAttempts ==
    Returned =>
      \A n \in PerpetuallyFailing : Kept(n).tentativas = max_regeneration_attempts

\* C4: every section returned from Layer 6 has validacao_ok equal to the
\* passed result of validate_section on the kept version.
C4_ValidacaoOkIsLastVerdict ==
    Returned =>
      \A i \in 1..Len(final_sections) :
        final_sections[i].validacao_ok = validate_section(final_sections[i]).passed

\* C5: for every section whose kept version still has ERROR findings after
\* regeneration is exhausted, pendencias of the final result holds an entry
\* for each of those error messages.
C5_SurvivingErrorsArePendencias ==
    phase = "done" =>
      \A n \in PerpetuallyFailing :
        LET errs == validate_section(Kept(n)).errors
        IN \A j \in 1..Len(errs) :
              errs[j].severidade = SevError =>
                \E p \in 1..Len(result.pendencias) :
                   /\ result.pendencias[p].origem = n
                   /\ result.pendencias[p].texto = errs[j].mensagem

\* C6: for every conflict detect_conflicts reports on the run's memory,
\* pendencias of the final result holds an entry about that conflict, so
\* conflitos_encontrados >= 1 implies at least one conflict entry.
C6_ConflictsArePendencias ==
    phase = "done" =>
      /\ \A c \in 1..Len(detect_conflicts(memory)) :
            \E p \in 1..Len(result.pendencias) :
               /\ result.pendencias[p].tipo \notin {"gap", "validacao"}
               /\ result.pendencias[p].origem = detect_conflicts(memory)[c].tema
      /\ result.conflitos_encontrados >= 1 =>
            \E p \in 1..Len(result.pendencias) :
               result.pendencias[p].tipo \notin {"gap", "validacao"}

(***************************************************************************)
(* Claims on ProcessMemory and the consolidator                            *)
(***************************************************************************)
ParamKeys(e) == {e.parametros[j][1] : j \in 1..Len(e.parametros)}

ConflictsOf(m, tema, campo) ==
    SelectSeq(detect_conflicts(m), LAMBDA c : c.tema = tema /\ c.campo = campo)

\* Two stored extractions that disagree on a field of a shared theme and come
\* from event types of different priority.
DisagreeOn(a, b, tema, campo) ==
    /\ tema \in Range(a.temas) /\ tema \in Range(b.temas)
    /\ campo \in ParamKeys(a) /\ campo \in ParamKeys(b)
    /\ normalize_value(Lookup(a.parametros, campo))
         # normalize_value(Lookup(b.parametros, campo))
    /\ get_priority(a.tipo_evento) # get_priority(b.tipo_evento)

Campos == {"percentual", "periodo", "valor"}

\* C7: with exactly two extractions in memory that disagree on a field of a
\* shared theme and have different source priority, detect_conflicts returns
\* exactly one conflict for that theme and field, and its valor_1, fonte_1 and
\* fonte_escolhida are those of the extraction with the lower priority number,
\* whichever of the two was added first.
C7_PrimaryIsHigherAuthority ==
    Len(memory.extractions) = 2 =>
      LET a == memory.extractions[1]
          b == memory.extractions[2]
          w == IF get_priority(a.tipo_evento) < get_priority(b.tipo_evento)
               THEN a ELSE b
      IN \A tema \in Tema, campo \in Campos :
            DisagreeOn(a, b, tema, campo) =>
              LET cs == ConflictsOf(memory, tema, campo)
              IN /\ Len(cs) = 1
                 /\ cs[1].valor_1 = Lookup(w.parametros, campo)
                 /\ cs[1].fonte_1 = w.localizacao
                 /\ cs[1].fonte_escolhida = w.localizacao

\* C7 witness: the payslip was added first, the judgment second, and the one
\* conflict reported names the judgment's value as valor_1.
C7_Witness ==
    /\ Len(memory.extractions) = 2
    /\ memory.extractions[1].tipo_evento = "holerite"
    /\ memory.extractions[2].tipo_evento = "sentenca"
    /\ DisagreeOn(memory.extractions[1], memory.extractions[2],
                  "horas_extras", "percentual")
    /\ Len(detect_conflicts(memory)) = 1
    /\ detect_conflicts(memory)[1].valor_1 = "50%"
    /\ detect_conflicts(memory)[1].fonte_1 = "fls. 10"

GapsOf(m, tema, campo) ==
    SelectSeq(detect_gaps(m), LAMBDA g : g.tema = tema /\ g.campo = campo)

Recorded(m, tema, campo) ==
    \E i \in 1..Len(m.extractions) :
        /\ tema \in Range(m.extractions[i].temas)
        /\ campo \in ParamKeys(m.extractions[i])

\* C8: whenever a stored extraction carries a theme of the expected-field
\* table and no stored extraction of that theme records the expected field,
\* detect_gaps returns exactly one gap for that theme and field with the
\* severity of the table (also when the theme's extractions carry no
\* parameters at all); a field with a recorded value gets no gap.
C8_GapForEveryMissingField ==
    \A r \in 1..Len(expected_fields) :
      \A f \in 1..Len(expected_fields[r][2]) :
        LET tema == expected_fields[r][1]
            campo == expected_fields[r][2][f][1]
            gaps == GapsOf(memory, tema, campo)
        IN /\ (tema \in get_all_temas(memory) /\ ~Recorded(memory, tema, campo))
                => (Len(gaps) = 1 /\ gaps[1].severidade = expected_fields[r][2][f][3])
           /\ Recorded(memory, tema, campo) => Len(gaps) = 0

\* C9: when consolidate returns, its list holds exactly one ConsolidatedTheme
\* for every distinct theme present in memory, whatever the model calls did.
C9_OneEntryPerTheme ==
    phase = "consolidated" =>
      /\ Len(consolidated) = Cardinality(get_all_temas(memory))
      /\ \A tema \in get_all_temas(memory) :
            Cardinality({i \in 1..Len(consolidated) : consolidated[i].tema = tema}) = 1

Contributing(m, tema) ==
    {i \in 1..Len(m.extractions) : tema \in Range(m.extractions[i].temas)}

\* C10: for every theme with exactly one contributing extraction, the
\* consolidated theme is confirmed, has no conflicts and carries that
\* extraction's parameters, and no model call was made for the theme, also
\* when that extraction lists the theme more than once.
C10_SingleSourceConfirmed ==
    phase = "consolidated" =>
      \A tema \in get_all_temas(memory) :
        Cardinality(Contributing(memory, tema)) = 1 =>
          LET e == memory.extractions[CHOOSE i \in Contributing(memory, tema) : TRUE]
          IN /\ tema \notin api_calls
             /\ \E i \in 1..Len(consolidated) :
                   /\ consolidated[i].tema = tema
                   /\ consolidated[i].status = "confirmed"
                   /\ consolidated[i].conflitos = <<>>
                   /\ consolidated[i].parametros_consolidados = e.parametros

\* C11: when consolidate has returned, every conflict detect_conflicts reports
\* for a theme is in the conflicts list of that theme's ConsolidatedTheme
\* (same campo, valor_1, fonte_1, valor_2, fonte_2) and the theme's status is
\* divergent, on the model path and on the fallback path alike.
C11_ConflictMeansDivergent ==
    phase = "consolidated" =>
      \A c \in 1..Len(detect_conflicts(memory)) :
        LET conflict == detect_conflicts(memory)[c]
        IN \E i \in 1..Len(consolidated) :
              /\ consolidated[i].tema = conflict.tema
              /\ consolidated[i].status = "divergent"
              /\ \E k \in 1..Len(consolidated[i].conflitos) :
                    LET x == consolidated[i].conflitos[k]
                    IN /\ x.campo = conflict.campo
                       /\ x.valor_1 = conflict.valor_1
                       /\ x.fonte_1 = conflict.fonte_1
                       /\ x.valor_2 = conflict.valor_2
                       /\ x.fonte_2 = conflict.fonte_2

\* C13: adding an extraction that memory already holds a second time, with
\* add_extraction or add_extractions, leaves the extraction list, the three
\* indexes, get_summary and detect_conflicts as they were.
C13_AddIsIdempotent ==
    \A i \in 1..Len(memory.extractions) :
      LET e == memory.extractions[i]
          again == add_extraction(memory, e)
      IN /\ again.extractions = memory.extractions
         /\ again.by_tema = memory.by_tema
         /\ again.by_evento = memory.by_evento
         /\ again.parametros_index = memory.parametros_index
         /\ get_summary(again) = get_summary(memory)
         /\ detect_conflicts(again) = detect_conflicts(memory)
         /\ add_extractions(memory, <<e>>) = memory

\* The rules of the given severity that apply to the section and report
Findings(section, severity) ==
    {i \in 1..Len(rules) :
        /\ rules[i].severity = severity
        /\ "*" \in rules[i].applies_to \/ section.secao \in rules[i].applies_to
        /\ RunValidator(rules[i].name, section.conteudo) # NoMessage}

WarningOnly(section) ==
    /\ Findings(section, SevError) = {}
    /\ Findings(section, SevWarning) # {}

ToRegenerateNames(secs) ==
    LET toreg == get_sections_to_regenerate(validate_all_sections(secs))
    IN {toreg[i][1] : i \in 1..Len(toreg)}

\* C16: validate_section passes a section exactly when no applicable rule of
\* ERROR severity reports; a section with WARNING findings only passes, is not
\* among the sections to regenerate and is never regenerated.
C16_WarningsNeverBlock ==
    /\ \A i \in 1..Len(sections) :
          /\ validate_section(sections[i]).passed
                <=> Findings(sections[i], SevError) = {}
          /\ WarningOnly(sections[i]) =>
                /\ sections[i].secao \notin ToRegenerateNames(sections)
                /\ regen_calls[sections[i].secao] = 0
                /\ final_sections # <<>> => final_sections[i] = sections[i]
    /\ current_section # NoSection =>
          (validate_section(current_section).passed
              <=> Findings(current_section, SevError) = {})

C16_Witness ==
    /\ phase = "done"
    /\ \E i \in 1..Len(sections) : WarningOnly(sections[i])
    /\ \E i \in 1..Len(sections) : regen_calls[sections[i].secao] > 0

\* {"total": {"valor": "R$ 500,00"}} with the given fonte, "absent" for no key
ValorContent(fonte) ==
    JObj(<< <<"total",
              IF fonte = "absent" THEN JObj(<< <<"valor", JStr("R$ 500,00")>> >>)
              ELSE Field("R$ 500,00", fonte)>> >>)

MissingSourceRules == {"campo_sem_localizacao", "percentual_sem_fonte", "valor_sem_fonte"}

\* C17: under every one of the nine section names, a content holding the object
\* {"valor": "R$ 500,00"} with no fonte or an empty fonte fails validate_section
\* with an ERROR finding that names the field, and with a non-empty fonte gives
\* no missing-source finding.
C17_ValorWithoutFonteFails ==
    \A i \in 1..Len(sections) : \A fonte \in {"absent", "", "fls. 10"} :
        LET v == validate_section([sections[i] EXCEPT !.conteudo = ValorContent(fonte)])
        IN IF fonte = "fls. 10"
           THEN \A j \in 1..Len(v.errors) : v.errors[j].regra \notin MissingSourceRules
           ELSE /\ ~v.passed
                /\ \E j \in 1..Len(v.errors) :
                      /\ v.errors[j].severidade = SevError
                      /\ v.errors[j].regra \in MissingSourceRules
                      /\ <<"total">> \in Range(v.errors[j].mensagem.itens)

\* C18: once Layer 6 has returned, the list of sections that goes into the
\* final result holds exactly nine SectionResults, one per section name, in
\* SECTION_ORDER, whatever was regenerated and whatever generation failed.
C18_NineSectionsInOrder ==
    phase \in {"final", "done"} =>
        /\ Len(final_sections) = 9
        /\ [i \in 1..Len(final_sections) |-> final_sections[i].secao] = SECTION_ORDER
        /\ phase = "done" => result.secoes = final_sections

C18_Witness ==
    /\ phase = "done"
    /\ \E i \in 1..Len(sections) : regen_calls[sections[i].secao] > 0
    /\ \E i \in 1..Len(final_sections) : HasKey(final_sections[i].conteudo.kv, "erro")
    /\ \E i \in 1..Len(final_sections) :
          /\ regen_calls[final_sections[i].secao] > 0
          /\ final_sections[i].validacao_ok

C22_EmptyResponseFallsBack ==
    [][(cons_tema # "" /\ cons_tema' = "") =>
          \/ consolidated' =
                Append(consolidated, create_fallback_consolidation(cons_tema, memory))
          \/ \E resp \in ConsolidationResponses :
                /\ HasData(resp)
                /\ consolidated' =
                      Append(consolidated,
                             parse_consolidation_response(
                                 resp, cons_tema, get_by_tema(memory, cons_tema)))]_vars

\* The messages of the findings of ERROR severity of a validation
ErrorMessages(v) ==
    LET errs == SelectSeq(v.errors, LAMBDA e : e.severidade = SevError)
    IN [j \in 1..Len(errs) |-> errs[j].mensagem]

\* C23: whenever regenerate_section is awaited, for the first attempt and for
\* each later one, the previous_errors it was given are exactly the messages of
\* ERROR severity of the latest validation of that section.
C23_PreviousErrorsAreErrorMessages ==
    phase = "regen" => errors = ErrorMessages(validate_section(current_section))

RECURSIVE HasNonPlaceholderContent(_)
\* some value under a key other than fonte is a non-blank string that is not
\* the placeholder "nao identificado"
HasNonPlaceholderContent(obj) ==
    IF obj.t = "str" THEN ~IsBlank(obj.s) /\ ~IsPlaceholder(obj)
    ELSE IF obj.t = "list"
    THEN \E i \in 1..Len(obj.kv) : HasNonPlaceholderContent(obj.kv[i][2])
    ELSE \E i \in 1..Len(obj.kv) :
            obj.kv[i][1] # "fonte" /\ HasNonPlaceholderContent(obj.kv[i][2])

\* Section contents: empty, the failed-generation object, only placeholders,
\* only blanks, a list of placeholders, real content
EmptinessContents ==
    { JObj(<<>>),
      JObj(<< <<"erro", JStr("Falha na geracao")>> >>),
      JObj(<< <<"reclamante", Field("nao identificado", "")>> >>),
      JObj(<< <<"reclamante", Field("  ", "fls. 10")>> >>),
      JObj(<< <<"eventos", JList(<<JStr("nao identificado")>>)>> >>),
      SourcedContent, VagueContent }

\* C26: under every section name validate_section reports the ERROR finding
\* secao_vazia exactly when the content is empty, holds an erro key, or has no
\* non-placeholder content under a key other than fonte; a section whose every
\* value is "nao identificado" fails validation.
C26_PlaceholderOnlySectionFails ==
    \A i \in 1..Len(sections) : \A content \in EmptinessContents :
        LET v == validate_section([sections[i] EXCEPT !.conteudo = content])
            reported == \E j \in 1..Len(v.errors) :
                            /\ v.errors[j].regra = "secao_vazia"
                            /\ v.errors[j].severidade = SevError
        IN /\ reported <=> \/ ~Truthy(content)
                           \/ HasKey(content.kv, "erro")
                           \/ ~HasNonPlaceholderContent(content)
           /\ reported => ~v.passed

\* C27: for every conflict detect_conflicts reports, valor_1 has the same
\* normalized value as get_parametros_by_tema gives for the conflict's theme
\* and field, for every number of recorded values and every insertion order.
C27_PrimaryIsResolvedValue ==
    \A c \in 1..Len(detect_conflicts(memory)) :
        LET conflict == detect_conflicts(memory)[c]
            parametros == get_parametros_by_tema(memory, conflict.tema)
        IN /\ HasKey(parametros, conflict.campo)
           /\ normalize_value(conflict.valor_1)
                = normalize_value(Lookup(parametros, conflict.campo))

(***************************************************************************)
(* Claims on extract_from_chunks                                           *)
(***************************************************************************)
\* The answers that are parseable JSON
ParseableKinds == {"empty_object", "object"}

YieldedJson == {c \in 1..Len(tasks) : tasks[c].answer \in ParseableKinds}

ExtractionsOf(c) == {i \in 1..Len(extracted) : extracted[i].chunk_id = c}

\* C15: extract_from_chunks returns, whatever failed on which chunk, with exactly
\* one extraction for each chunk whose model call yielded parseable JSON and
\* none for the other chunks.
C15_OneExtractionPerParsedChunk ==
    phase = "extracted" =>
        \A c \in 1..Len(tasks) :
            Cardinality(ExtractionsOf(c)) = IF c \in YieldedJson THEN 1 ELSE 0

\* The chunks being worked on: request in flight or backoff sleep
InProgress == {c \in 1..Len(tasks) : tasks[c].st \in {"calling", "sleeping"}}

\* C20: in every reachable state of extract_from_chunks at most max_parallel
\* chunks are in progress.
C20_AtMostMaxParallelInProgress ==
    Cardinality(InProgress) <= max_parallel

C20_Witness ==
    /\ Cardinality(InProgress) = max_parallel
    /\ max_parallel = MaxParallel
    /\ \E c \in 1..Len(tasks) : tasks[c].st = "waiting"
    /\ \E c \in InProgress : tasks[c].st = "sleeping"
    /\ \E c \in InProgress : tasks[c].st = "calling"

(***************************************************************************)
(* Claims on LegalChunker.chunk                                            *)
(***************************************************************************)
\* The chunks chunk(text) hands to _enforce_size_limits
BeforeSizeLimits(text) ==
    IF Len(split_by_document_markers(text)) <= 1
    THEN split_by_paragraphs(text)
    ELSE split_by_document_markers(text)

\* C21: every chunk returned by chunk(text) has palavra_count <= max_words, and
\* palavra_count is the number of words of the chunk's text.
C21_ChunksWithinMaxWords ==
    phase = "chunked" =>
        \A i \in 1..Len(chunker_chunks) :
            /\ chunker_chunks[i].palavra_count <= ChunkerMaxWords
            /\ chunker_chunks[i].palavra_count = Len(chunker_chunks[i].texto)

C21_Witness ==
    /\ phase = "chunked"
    /\ \E i \in 1..Len(BeforeSizeLimits(chunker_text)) :
          BeforeSizeLimits(chunker_text)[i].palavra_count > ChunkerMaxWords
    /\ Len(chunker_chunks) > Len(BeforeSizeLimits(chunker_text))

(***************************************************************************)
(* Claims on _generate_section                                             *)
(***************************************************************************)
\* The call ended without content and without a rate-limit or connectivity error
EndsWithoutRetry(call) ==
    \/ call.kind \in {"none", "other"}
    \/ call.kind = "content" /\ ~Truthy(call.content)

\* C24: within one _generate_section a further model call is made only after a
\* rate-limit or connectivity error and at most max_retries calls are made;
\* after an empty or unparseable response or any other error no further call
\* is made and the failed section is returned.
C24_RetryOnlyAfterTransientError ==
    /\ Len(gen_calls) <= GeneratorMaxRetries
    /\ \A k \in 2..Len(gen_calls) : gen_calls[k - 1].kind = "transient"
    /\ \A k \in 1..Len(gen_calls) :
          EndsWithoutRetry(gen_calls[k]) =>
              /\ k = Len(gen_calls)
              /\ phase = "generated"
              /\ gen_result = FailedSection(gen_section)

\* The model calls made for chunk c so far
CallsMade(c) ==
    Len(tasks[c].outcomes) + (IF tasks[c].st = "calling" THEN 1 ELSE 0)

\* C25: for each chunk at most max_retries model calls are made; a call after
\* the first follows a call that raised a rate-limit or connectivity error and
\* one backoff sleep of 2^attempt + 0.5*attempt seconds; after any other
\* outcome no further call is made, and a chunk whose last call gave an error
\* or an empty or unparseable response yields no extraction.
C25_RetryOnlyAfterTransientError ==
    \A c \in 1..Len(tasks) :
        /\ CallsMade(c) <= ExtractorMaxRetries
        /\ \A k \in 1..(CallsMade(c) - 1) :
              /\ tasks[c].outcomes[k] = "transient"
              /\ tasks[c].slept[k] = 2 * (2 ^ (k - 1)) + (k - 1)
        /\ Len(tasks[c].slept) =
              IF tasks[c].st = "sleeping" THEN CallsMade(c)
              ELSE IF CallsMade(c) = 0 THEN 0 ELSE CallsMade(c) - 1
        /\ (/\ tasks[c].st = "done"
            /\ tasks[c].outcomes[Len(tasks[c].outcomes)]
                  \in {"transient", "other", "empty", "unparseable"})
              => /\ tasks[c].result = NoExtraction
                 /\ phase = "extracted" => ExtractionsOf(c) = {}

C25_Witness ==
    /\ phase = "extracted"
    /\ \E c \in 1..Len(tasks) :
          /\ tasks[c].outcomes = <<"transient", "transient", "transient">>
          /\ tasks[c].slept = <<2, 5>>
    /\ \E c \in 1..Len(tasks) :
          /\ tasks[c].outcomes = <<"transient", "object">>
          /\ ExtractionsOf(c) # {}
    /\ \E c \in 1..Len(tasks) : tasks[c].outcomes = <<"unparseable">>

(***************************************************************************)
(* Claims on the memory built from the extractor's output                  *)
(***************************************************************************)

\* The memory the pipeline builds from what extract_from_chunks returned
ExtractedMemory == add_extractions(EmptyMemory, extracted)

\* C28: after the extractions produced by the extractor are added to the
\* memory, each of them appears exactly once in the by-theme list of every
\* theme it carries, and contributes each of its parameter values exactly once
\* to that theme's parameter index.
C28_IndexedOncePerTheme ==
    phase = "extracted" =>
        \A i \in 1..Len(extracted) : \A tema \in Range(extracted[i].temas) :
            LET e == extracted[i]
                listed == get_by_tema(ExtractedMemory, tema)
                idx == ExtractedMemory.parametros_index
            IN /\ Cardinality({k \in 1..Len(listed) : listed[k] = e}) = 1
               /\ \A j \in 1..Len(e.parametros) :
                     Cardinality({k \in 1..Len(idx) :
                                    /\ idx[k].tema = tema
                                    /\ idx[k].campo = e.parametros[j][1]
                                    /\ idx[k].value = e.parametros[j][2]
                                    /\ idx[k].loc = e.localizacao
                                    /\ idx[k].evento = e.tipo_evento}) =
                     Cardinality({x \in 1..Len(extracted) :
                                    /\ tema \in Range(extracted[x].temas)
                                    /\ e.parametros[j] \in Range(extracted[x].parametros)
                                    /\ extracted[x].localizacao = e.localizacao
                                    /\ extracted[x].tipo_evento = e.tipo_evento})

(***************************************************************************)
(* Claims on DocumentService and the per-file handler of main              *)
(***************************************************************************)

\* C29: process_file never raises to its caller; for a path that does not exist
\* it returns a DocumentResult with status ERROR, with the cache enabled or
\* disabled; and process_batch returns to its caller whatever paths it is given.
C29_ProcessFileNeverRaises ==
    /\ call_outcome.op = "process_file" =>
          /\ call_outcome.kind = "returned"
          /\ call_outcome.found.kind = "missing" =>
                call_outcome.value.status = "error"
    /\ call_outcome.op = "process_batch" => call_outcome.kind = "returned"

\* summarize returned the structured error object, and it came back as summary
IsErrorObject(summary) == "erro" \in DOMAIN summary

\* C30: a document whose pipeline run ended in the structured error object is
\* not returned with status SUCCESS, no result holding the error object is in
\* the cache, and the file is not moved to the processed directory.
C30_ErrorObjectIsNotSuccess ==
    /\ \A i \in 1..Len(service_cache) : ~IsErrorObject(service_cache[i][2].summary)
    /\ (call_outcome.kind = "returned" /\ IsErrorObject(call_outcome.value.summary)) =>
          /\ ~is_success(call_outcome.value)
          /\ call_outcome.file_paths[1] \notin processed_dir
====
